---- MODULE Spec2Model ----
(***************************************************************************)
(* USB device monitor of drivers/usb/usb_device.c: the per-host device     *)
(* registry, the enumeration state machine driven by observed SET_ADDRESS  *)
(* and SET_CONFIGURATION transfers, the port-status reactor and the        *)
(* descriptor parser.  The build modelled has neither HANDLE_USBHUB nor    *)
(* CONCEAL_USBCCID defined.                                                *)
(*                                                                         *)
(* Pointers to struct usb_device are slot numbers 1..MaxDev, NULL is 0,    *)
(* and an integer converted to a pointer (free_device(usbhc, devadr)) is   *)
(* the negative number -devadr: an address that is no usb_device object.   *)
(***************************************************************************)
EXTENDS Integers, Sequences, FiniteSets, TLC

VARIABLES host, dev, bus, panicked, call, parse, cpu, lock

vars == <<host, dev, bus, panicked, call, parse, cpu, lock>>

(***************************************************************************)
(* Bounds of the model and enumerated inputs.                              *)
(***************************************************************************)
MaxDev == 2

DevIds == 1..MaxDev

NULL == 0

\* port indexes reported by the host controller (ports are index + 1)
PortIndexes == {0, 1}

\* 16-bit port status words: connect, disconnect, both, bit 8, bit 9
StatusWords == {1, 2, 3, 256, 512}

\* the bit the caller names as "port reset" (EHCI bit 8, UHCI bit 9)
ResetOffsets == {8, 9}

\* wValue of the observed SET_ADDRESS setup packets; the handler keeps
\* (u8)wValue & 0x7f, so 129 names address 1 and 128 address 0
SetupWValues == {1, 128, 129}

\* device addresses of the observed SET_CONFIGURATION transfers
Addresses == {0, 1, 2}

\* the longest CONFIG answer handed to the parser, in records
MaxRecords == 4

(***************************************************************************)
(* Program constants.                                                      *)
(***************************************************************************)
USB_DT_DEVICE == 1
USB_DT_CONFIG == 2
USB_DT_INTERFACE == 4
USB_DT_ENDPOINT == 5
USB_DT_CONFIG_SIZE == 9
USB_DT_INTERFACE_SIZE == 9
USB_DT_ENDPOINT_SIZE == 7
USB_DT_DEVICE_SIZE == 18

\* hook phases, 1-based as passed to usb_hook_register / usb_hook_unregister
USB_HOOK_NUM_PHASE == 3
USB_HOOK_REPLY == 3

UD_STATUS_DETACHED == "DETACHED"
UD_STATUS_ADDRESSED == "ADDRESSED"
UD_STATUS_CONFIGURED == "CONFIGURED"

\* pattern words of the two hooks this file registers (bRequest in bits 8..15)
pat_setadr == 1280
pat_setconf == 2304

USB_HOOK_PASS == 0

(***************************************************************************)
(* Descriptor parser.  A buffer is the sequence of bytes the device        *)
(* returned; new_usb_device zero-fills its 255-byte array before each      *)
(* request, so a read at or past the returned length yields 0.             *)
(***************************************************************************)
Max(a, b) == IF a >= b THEN a ELSE b

\* the byte at 0-based offset i of the request buffer
ByteAt(buf, i) == IF i < Len(buf) THEN buf[i + 1] ELSE 0

\* the n bytes at offsets pos .. pos+n-1, as memcpy reads them
BytesAt(buf, pos, n) == [i \in 1..n |-> ByteAt(buf, pos + i - 1)]

\* tack_on of one fixed-size unit: a zeroed unit of `unitsize` wire bytes
\* onto which the first `newsize` bytes at pos are copied.  spill counts the
\* bytes memcpy wrote past the wire fields of the unit.
NewUnit(buf, pos, newsize, unitsize) ==
    [bytes |-> [i \in 1..unitsize |-> IF i <= newsize THEN ByteAt(buf, pos + i - 1) ELSE 0],
     spill |-> Max(0, newsize - unitsize)]

\* tack_on(src, src_n, new, 1, newsize, unitsize): the first src_n units of
\* src followed by the new unit; with src_n = 0 the old array is not copied.
tack_on(src, src_n, unit) ==
    (IF src_n > 0 THEN SubSeq(src, 1, src_n) ELSE <<>>) \o <<unit>>

\* tack_on(extra, extralen, buf_p, bLength, bLength, 1) on a byte buffer
tack_on_bytes(extra, extralen, buf, pos, n) ==
    (IF extralen > 0 THEN SubSeq(extra, 1, extralen) ELSE <<>>) \o BytesAt(buf, pos, n)

zalloc_usb_interface == [altsetting |-> <<>>, num_altsetting |-> 0]

NewConfig(buf, pos, bLength) ==
    LET u == NewUnit(buf, pos, bLength, USB_DT_CONFIG_SIZE)
    IN  [bytes |-> u.bytes, spill |-> u.spill, interface |-> zalloc_usb_interface,
         extra |-> <<>>, extralen |-> 0]

NewInterface(buf, pos, bLength) ==
    LET u == NewUnit(buf, pos, bLength, USB_DT_INTERFACE_SIZE)
    IN  [bytes |-> u.bytes, spill |-> u.spill, endpoint |-> <<>>,
         extra |-> <<>>, extralen |-> 0]

NewEndpoint(buf, pos, bLength) ==
    LET u == NewUnit(buf, pos, bLength, USB_DT_ENDPOINT_SIZE)
    IN  [bytes |-> u.bytes, spill |-> u.spill, extra |-> <<>>, extralen |-> 0]

\* field accessors of the wire images
bNumInterfaces(c) == c.bytes[5]

bNumEndpoints(i) == i.bytes[5]

wMaxPacketSize(e) == e.bytes[5] + 256 * e.bytes[6]

bMaxPacketSize0(descriptor) == descriptor[8]

\* the cursors of extract_config_descriptors before its loop: *cdesc, *odesc,
\* cdescp, idescp and edescp NULL, every counter 0, last_bDescriptorType 0.
\* cdescp is an index into cdesc (0 is NULL); idescp names alt-setting i of
\* configuration c; edescp names endpoint e of that alt-setting.
NoCursor == [c |-> 0, i |-> 0, e |-> 0]

ExtractInit ==
    [parsed |-> 0, cdesc |-> <<>>, odesc |-> <<>>, odesclen |-> 0,
     cdescp |-> 0, idescp |-> NoCursor, edescp |-> NoCursor,
     n_cdesc |-> 0, n_idesc |-> 0, n_edesc |-> 0,
     last_bDescriptorType |-> 0, stopped |-> FALSE, fault |-> FALSE]

\* case USB_DT_CONFIG
OnConfig(ps, buf, bLength) ==
    [ps EXCEPT !.cdesc = tack_on(ps.cdesc, ps.n_cdesc, NewConfig(buf, ps.parsed, bLength)),
               !.cdescp = ps.n_cdesc + 1,
               !.n_idesc = 0,
               !.n_edesc = 0,
               !.n_cdesc = ps.n_cdesc + 1]

\* case USB_DT_INTERFACE
OnInterface(ps, buf, bLength) ==
    IF ps.cdescp = 0
    THEN ps
    ELSE LET old == ps.cdesc[ps.cdescp].interface.altsetting
             new == tack_on(old, ps.n_idesc, NewInterface(buf, ps.parsed, bLength))
         IN  [ps EXCEPT !.cdesc[ps.cdescp].interface =
                            [altsetting |-> new, num_altsetting |-> ps.n_idesc + 1],
                        !.idescp = [c |-> ps.cdescp, i |-> ps.n_idesc + 1, e |-> 0],
                        !.n_edesc = 0,
                        !.n_idesc = ps.n_idesc + 1]

\* case USB_DT_ENDPOINT
OnEndpoint(ps, buf, bLength) ==
    IF ps.idescp.c = 0
    THEN ps
    ELSE LET c == ps.idescp.c
             i == ps.idescp.i
             old == ps.cdesc[c].interface.altsetting[i].endpoint
             new == tack_on(old, ps.n_edesc, NewEndpoint(buf, ps.parsed, bLength))
         IN  [ps EXCEPT !.cdesc[c].interface.altsetting[i].endpoint = new,
                        !.edescp = [c |-> c, i |-> i, e |-> ps.n_edesc + 1],
                        !.n_edesc = ps.n_edesc + 1]

\* default: a record of any other type, routed by last_bDescriptorType.  A
\* NULL cdescp or idescp is dereferenced there (fault): the access is
\* undefined, and a walk that goes on has left the record's bytes nowhere in
\* the tree.
OnOther(ps, buf, bLength) ==
    CASE ps.last_bDescriptorType = USB_DT_CONFIG ->
            IF ps.cdescp = 0
            THEN [ps EXCEPT !.fault = TRUE]
            ELSE LET cd == ps.cdesc[ps.cdescp]
                 IN  [ps EXCEPT !.cdesc[ps.cdescp].extra =
                                    tack_on_bytes(cd.extra, cd.extralen, buf, ps.parsed, bLength),
                                !.cdesc[ps.cdescp].extralen = cd.extralen + bLength]
      [] ps.last_bDescriptorType = USB_DT_INTERFACE ->
            IF ps.idescp.c = 0
            THEN [ps EXCEPT !.fault = TRUE]
            ELSE LET c == ps.idescp.c
                     i == ps.idescp.i
                     id == ps.cdesc[c].interface.altsetting[i]
                 IN  [ps EXCEPT !.cdesc[c].interface.altsetting[i].extra =
                                    tack_on_bytes(id.extra, id.extralen, buf, ps.parsed, bLength),
                                !.cdesc[c].interface.altsetting[i].extralen = id.extralen + bLength]
      [] ps.last_bDescriptorType = USB_DT_ENDPOINT ->
            \* "case USB_DT_ENDPOINT: break;" -- the append below it is dead code
            ps
      [] OTHER ->
            [ps EXCEPT !.odesc = tack_on_bytes(ps.odesc, ps.odesclen, buf, ps.parsed, bLength),
                       !.odesclen = ps.odesclen + bLength]

\* the end of the do-loop body, on the cursors q the switch has left: buf_p
\* and parsed move on by bLength, last_bDescriptorType is the record's type
NextRecord(q, bLength, bDescriptorType) ==
    [q EXCEPT !.parsed = q.parsed + bLength,
              !.last_bDescriptorType = bDescriptorType]

\* a variant of ExtractStep with a seeded fault: a record with bLength 0 is
\* stepped over as a bare 2-byte header and the walk goes on
ExtractStep_SkipsZero(ps, buf) ==
    LET bLength == ByteAt(buf, ps.parsed)
        bDescriptorType == ByteAt(buf, ps.parsed + 1)
    IN  IF bLength = 0
        THEN [ps EXCEPT !.parsed = ps.parsed + 2]
        ELSE NextRecord(CASE bDescriptorType = USB_DT_CONFIG -> OnConfig(ps, buf, bLength)
                          [] bDescriptorType = USB_DT_INTERFACE -> OnInterface(ps, buf, bLength)
                          [] bDescriptorType = USB_DT_ENDPOINT -> OnEndpoint(ps, buf, bLength)
                          [] OTHER -> OnOther(ps, buf, bLength),
                        bLength, bDescriptorType)

\* one pass of the do-loop body on the record at buf_p
ExtractStep(ps, buf) ==
    LET bLength == ByteAt(buf, ps.parsed)
        bDescriptorType == ByteAt(buf, ps.parsed + 1)
    IN  IF bLength = 0
        THEN [ps EXCEPT !.stopped = TRUE]
        ELSE NextRecord(CASE bDescriptorType = USB_DT_CONFIG -> OnConfig(ps, buf, bLength)
                          [] bDescriptorType = USB_DT_INTERFACE -> OnInterface(ps, buf, bLength)
                          [] bDescriptorType = USB_DT_ENDPOINT -> OnEndpoint(ps, buf, bLength)
                          [] OTHER -> OnOther(ps, buf, bLength),
                        bLength, bDescriptorType)

RECURSIVE ExtractLoop(_, _, _)
\* "while (parsed < len)" on the cursors q one pass has left
ExtractWhile(q, buf, len) ==
    IF q.stopped \/ ~(q.parsed < len)
    THEN q
    ELSE ExtractLoop(q, buf, len)

\* do { ... } while (parsed < len)
ExtractLoop(ps, buf, len) == ExtractWhile(ExtractStep(ps, buf), buf, len)

\* extract_config_descriptors(host, buf, len, &cdesc, &odesc); ret is its
\* return value
extract_config_descriptors(buf, len) ==
    IF len = 0
    THEN [ExtractInit EXCEPT !.stopped = TRUE] @@ [ret |-> 0]
    ELSE ExtractLoop(ExtractInit, buf, len) @@ [ret |-> len]

\* the endpoint zalloc_usb_endpoint_descriptor returns, wMaxPacketSize set
SynthEndpoint(pktsz) ==
    [bytes |-> [i \in 1..USB_DT_ENDPOINT_SIZE |->
                    IF i = 5 THEN pktsz % 256 ELSE IF i = 6 THEN pktsz \div 256 ELSE 0],
     spill |-> 0, extra |-> <<>>, extralen |-> 0]

\* a unit read past the end of an endpoint array: heap bytes of no known value
IndeterminateEndpoint ==
    [bytes |-> <<>>, spill |-> 0, extra |-> <<>>, extralen |-> 0]

\* "add a descriptor for endpoint-0": tack_on(edesc, 1, idesc->endpoint,
\* idesc->bNumEndpoints, sizeof(*edesc) * idesc->bNumEndpoints, sizeof(*edesc))
AddEndpointZero(idesc, pktsz) ==
    LET n == bNumEndpoints(idesc)
    IN  [idesc EXCEPT !.endpoint =
            <<SynthEndpoint(pktsz)>> \o
            [k \in 1..n |-> IF k <= Len(idesc.endpoint)
                            THEN idesc.endpoint[k]
                            ELSE IndeterminateEndpoint]]

\* free_config_descriptors(cdesc, n): the blocks of the tree that are still
\* allocated when it returns.  The array cdesc and, for each of its first n
\* configurations that has alt-settings, the alt-setting array, its extra
\* buffers, its endpoint arrays and the interface container are freed.  The
\* loop skips a configuration whose container has no alt-setting without
\* freeing the container; no extra buffer of a configuration is freed; the
\* configurations past the first n are not visited.
free_config_descriptors(cdesc, n) ==
    UNION {(IF cdesc[i].extralen > 0 THEN {<<"extra of configuration", i>>} ELSE {})
           \cup
           (IF i > n
            THEN {<<"interface container", i>>} \cup
                 (IF cdesc[i].interface.altsetting # <<>>
                  THEN {<<"alt-setting array", i>>} ELSE {})
            ELSE IF cdesc[i].interface.altsetting = <<>>
            THEN {<<"interface container", i>>}
            ELSE {}) : i \in DOMAIN cdesc}

\* the blocks that parse_descriptor, case USB_DT_CONFIG, has passed to
\* free_config_descriptors and that are still allocated when it returns:
\* those of the tree just built when it is discarded as incomplete, those of
\* the previous tree of the device when it is replaced
Unfreed(d, x) ==
    IF x.cdesc = <<>>
    THEN {}
    ELSE IF bNumInterfaces(x.cdesc[1]) # 0 /\ x.ret <= USB_DT_CONFIG_SIZE
    THEN free_config_descriptors(x.cdesc, 1)
    ELSE free_config_descriptors(d.config, 1)

\* a variant of ParseDevice with a seeded fault: the whole descriptor is
\* copied from buf whatever len is
ParseDevice_WholeDescriptor(d, buf, len) ==
    [d EXCEPT !.descriptor = [i \in 1..USB_DT_DEVICE_SIZE |-> ByteAt(buf, i - 1)]]

\* parse_descriptor, case USB_DT_DEVICE: memcpy(&dev->descriptor, ddesc, len).
\* The copy is len bytes long: a len above the size of the descriptor would
\* write past it, shown here as a descriptor of len bytes.
ParseDevice(d, buf, len) ==
    [d EXCEPT !.descriptor =
        [i \in 1..Max(USB_DT_DEVICE_SIZE, len) |-> IF i <= len THEN ByteAt(buf, i - 1)
                                                   ELSE d.descriptor[i]]]

\* parse_descriptor, case USB_DT_CONFIG, on the parser's result x
ParseConfig(d, x) ==
    IF x.cdesc = <<>>
    THEN d
    ELSE IF bNumInterfaces(x.cdesc[1]) # 0 /\ x.ret <= USB_DT_CONFIG_SIZE
    THEN d
    ELSE LET alts == x.cdesc[1].interface.altsetting
         IN  IF alts # <<>> /\ alts[1].endpoint # <<>>
             THEN [d EXCEPT !.config =
                     [x.cdesc EXCEPT ![1].interface.altsetting[1] =
                         AddEndpointZero(alts[1], bMaxPacketSize0(d.descriptor))]]
             ELSE [d EXCEPT !.config = x.cdesc]

\* parse_descriptor, case USB_DT_CONFIG, from the return of
\* extract_config_descriptors on; fault tells that the walk went through a
\* NULL cursor
AfterExtract(d, x) == [d |-> ParseConfig(d, x), fault |-> x.fault]

\* parse_descriptor(usbhc, desc, buf, len, dev) on the device record d; a
\* fault of the walk is reported in the second component
parse_descriptor(desc, buf, len, d) ==
    CASE desc = USB_DT_DEVICE -> [d |-> ParseDevice(d, buf, len), fault |-> FALSE]
      [] desc = USB_DT_CONFIG -> AfterExtract(d, extract_config_descriptors(buf, len))
      [] OTHER -> [d |-> d, fault |-> FALSE]

(***************************************************************************)
(* Memory: the host, the usb_device objects, the bus mirror.  Handlers are *)
(* operators from a memory m to the set of memories the call can leave     *)
(* behind; m.ret is the value returned and m.panic tells that the call     *)
(* never returned (an ASSERT failed or a wild access faulted or hung).     *)
(***************************************************************************)
ZeroDescriptor == [i \in 1..USB_DT_DEVICE_SIZE |-> 0]

\* zalloc_usb_device(): every field zero
zalloc_usb_device ==
    [alloc |-> TRUE, devnum |-> 0, portno |-> 0, bStatus |-> UD_STATUS_DETACHED,
     next |-> NULL, prev |-> NULL, descriptor |-> ZeroDescriptor,
     config |-> <<>>, handle |-> NULL]

\* a slot that holds no usb_device (never allocated, or released by free)
FreeSlot == [zalloc_usb_device EXCEPT !.alloc = FALSE]

IsDevice(m, d) == d \in DevIds /\ m.dev[d].alloc

\* a device address converted to a pointer, as free_device(usbhc, devadr) does
IntToPtr(n) == IF n = 0 THEN NULL ELSE 0 - n

RECURSIVE ChainFrom(_, _, _)
\* the devices met from d along next links, at most fuel of them
ChainFrom(m, d, fuel) ==
    IF fuel = 0 \/ ~IsDevice(m, d)
    THEN <<>>
    ELSE <<d>> \o ChainFrom(m, m.dev[d].next, fuel - 1)

\* host->device, ->next, ->next ...
Chain(m) == ChainFrom(m, m.host.device, MaxDev + 1)

Range(s) == {s[i] : i \in DOMAIN s}

\* the first device of the list that is in the set hits, NULL when none is
FirstMatch(list, hits) ==
    LET at == {i \in DOMAIN list : list[i] \in hits}
    IN  IF at = {} THEN NULL
        ELSE list[CHOOSE i \in at : \A j \in at : i <= j]

\* get_device_by_address(host, address): scan of the chain from its head
get_device_by_address(m, address) ==
    FirstMatch(Chain(m), {d \in DevIds : m.dev[d].devnum = address})

\* get_device_by_port(host, port): scan of the chain from its head
get_device_by_port(m, port) ==
    FirstMatch(Chain(m), {d \in DevIds : m.dev[d].portno = port})

\* usb_hook_register(host, phase, match, devadr, endpt, pattern, callback,
\* cbarg, dev): the hook joins the phase's chain
usb_hook_register(h, phase, devadr, pattern, callback, d) ==
    [h EXCEPT !.hook[phase] =
        Append(@, [devadr |-> devadr, pattern |-> pattern,
                   callback |-> callback, dev |-> d])]

\* usb_hook_unregister(host, phase, hook) for every hook of the phase whose
\* back-link is d
UnregisterHooksOf(h, phase, d) ==
    [h EXCEPT !.hook[phase] = SelectSeq(@, LAMBDA k : k.dev # d)]

RECURSIVE RemoveHooks_OffByOne(_, _, _)
\* a variant of RemoveHooks with a seeded fault: the last phase is not visited
RemoveHooks_OffByOne(h, d, phase) ==
    IF phase >= USB_HOOK_NUM_PHASE - 1
    THEN h
    ELSE RemoveHooks_OffByOne(UnregisterHooksOf(h, phase + 1, d), d, phase + 1)

RECURSIVE RemoveHooks(_, _, _)
\* free_device: for (phase = 0; phase < USB_HOOK_NUM_PHASE; phase++)
RemoveHooks(h, d, phase) ==
    IF phase >= USB_HOOK_NUM_PHASE
    THEN h
    ELSE RemoveHooks(UnregisterHooksOf(h, phase + 1, d), d, phase + 1)

Panic(m) == [m EXCEPT !.panic = TRUE]

\* usb_get_bus(host), and the update of bus->device from bus->host->device
MirrorBus(m) ==
    IF m.bus.exists THEN [m EXCEPT !.bus.device = m.host.device] ELSE m

\* usb_find_busses() and usb_find_devices(): the bus of the host exists and
\* its device list mirrors the host's
usb_find_devices(m) == [m EXCEPT !.bus = [exists |-> TRUE, device |-> m.host.device]]

\* free_device: "remove it from device list" and free(dev), on a device d
UnlinkDevice(m, d) ==
    LET nx == m.dev[d].next
        pv == m.dev[d].prev
        m1 == IF m.host.device = d
              THEN MirrorBus([m EXCEPT !.host.device = nx])
              ELSE IF ~IsDevice(m, pv)
              THEN Panic(m)
              ELSE [m EXCEPT !.dev[pv].next = nx]
        m2 == IF ~m1.panic /\ nx # NULL
              THEN [m1 EXCEPT !.dev[nx].prev = pv]
              ELSE m1
    IN  IF m2.panic THEN m2
        ELSE [m2 EXCEPT !.dev[d] = FreeSlot, !.ret = 0]

\* free_device(host, dev).  The hook loop only compares pointers.  What
\* follows dereferences dev: when dev is no usb_device object the accesses
\* are undefined, and the call either never returns (fault, failed ASSERT,
\* spin on a lock word that is not one) or returns having touched no object
\* of the registry.
free_device(m, d) ==
    LET m1 == [m EXCEPT !.host = RemoveHooks(m.host, d, 0)]
    IN  IF IsDevice(m, d)
        THEN {UnlinkDevice(m1, d)}
        ELSE {Panic(m1), [m1 EXCEPT !.ret = 0]}

\* u16 flag = 0x0001U << offset
ResetFlag(o) == (2 ^ o) % 65536

\* status & flag, for a flag of one bit (or none)
BitSet(status, flag) == flag > 0 /\ (status \div flag) % 2 = 1

\* a variant of handle_connect_status with a seeded fault: the port index is
\* recorded, not the 1-based port
handle_connect_status_PortIndex(m, portno, status) ==
    LET d == get_device_by_port(m, portno + 1)
        M1 == IF BitSet(status, 2) /\ d # NULL THEN free_device(m, d) ELSE {m}
    IN  {IF m1.panic THEN m1
         ELSE IF BitSet(status, 1)
         THEN [m1 EXCEPT !.host.last_changed_port = portno, !.ret = 0]
         ELSE [m1 EXCEPT !.ret = 0] : m1 \in M1}

\* handle_connect_status(ub_host, portno, status)
handle_connect_status(m, portno, status) ==
    LET d == get_device_by_port(m, portno + 1)
        M1 == IF BitSet(status, 2) /\ d # NULL THEN free_device(m, d) ELSE {m}
    IN  {IF m1.panic THEN m1
         ELSE IF BitSet(status, 1)
         THEN [m1 EXCEPT !.host.last_changed_port = portno + 1, !.ret = 0]
         ELSE [m1 EXCEPT !.ret = 0] : m1 \in M1}

\* a variant of handle_port_reset with a seeded fault: the slot is not
\* updated before the stalled device is freed
handle_port_reset_NoSlot(m, portno, status, offset) ==
    LET flag == ResetFlag(offset)
        d == get_device_by_port(m, portno + 1)
    IN  IF ~BitSet(status, flag)
        THEN {[m EXCEPT !.ret = 0]}
        ELSE IF d = NULL
        THEN {[m EXCEPT !.ret = 1]}
        ELSE {IF m1.panic THEN m1 ELSE [m1 EXCEPT !.ret = 0] : m1 \in free_device(m, d)}

\* a variant of handle_port_reset with a seeded fault: no "if (!dev)" test
handle_port_reset_NoNullTest(m, portno, status, offset) ==
    LET flag == ResetFlag(offset)
        d == get_device_by_port(m, portno + 1)
    IN  IF ~BitSet(status, flag)
        THEN {[m EXCEPT !.ret = 0]}
        ELSE {IF m1.panic THEN m1 ELSE [m1 EXCEPT !.ret = 0] :
                m1 \in free_device([m EXCEPT !.host.last_changed_port = portno + 1], d)}

\* a variant of handle_port_reset with a seeded fault: the stalled device is
\* not freed
handle_port_reset_NoFree(m, portno, status, offset) ==
    LET flag == ResetFlag(offset)
        d == get_device_by_port(m, portno + 1)
    IN  IF ~BitSet(status, flag)
        THEN {[m EXCEPT !.ret = 0]}
        ELSE IF d = NULL
        THEN {[m EXCEPT !.ret = 1]}
        ELSE {[m EXCEPT !.host.last_changed_port = portno + 1, !.ret = 0]}

\* handle_port_reset(ub_host, portno, status, offset)
handle_port_reset(m, portno, status, offset) ==
    LET flag == ResetFlag(offset)
        d == get_device_by_port(m, portno + 1)
    IN  IF ~BitSet(status, flag)
        THEN {[m EXCEPT !.ret = 0]}
        ELSE IF d = NULL
        THEN {[m EXCEPT !.ret = 1]}
        ELSE {IF m1.panic THEN m1 ELSE [m1 EXCEPT !.ret = 0] :
                m1 \in free_device([m EXCEPT !.host.last_changed_port = portno + 1], d)}

\* a variant of device_state_change with a seeded fault: the wrong status
\* constant
device_state_change_WrongState(m, urb) ==
    IF urb.dev # NULL
    THEN {[m EXCEPT !.dev[urb.dev].bStatus = UD_STATUS_ADDRESSED, !.ret = USB_HOOK_PASS]}
    ELSE {[m EXCEPT !.ret = USB_HOOK_PASS]}

\* device_state_change(usbhc, urb, arg)
device_state_change(m, urb) ==
    IF urb.dev # NULL
    THEN {[m EXCEPT !.dev[urb.dev].bStatus = UD_STATUS_CONFIGURED, !.ret = USB_HOOK_PASS]}
    ELSE {[m EXCEPT !.ret = USB_HOOK_PASS]}

(***************************************************************************)
(* What the attached device answers to the three GET_DESCRIPTOR requests   *)
(* of new_usb_device: the bytes returned, <<>> for a failed request.       *)
(***************************************************************************)
MouseDevice == <<18, 1, 0, 2, 0, 0, 0, 8, 109, 4, 119, 192, 0, 1, 1, 2, 0, 1>>

\* CONFIG(9) INTERFACE(9) HID(9) ENDPOINT(7)
MouseConfig ==
    <<9, 2, 34, 0, 1, 1, 0, 128, 50>> \o <<9, 4, 0, 0, 1, 3, 1, 2, 0>> \o
    <<9, 33, 17, 1, 0, 1, 34, 52, 0>> \o <<7, 5, 129, 3, 4, 0, 10>>

Mouse == [r8 |-> SubSeq(MouseDevice, 1, 8), r18 |-> MouseDevice, rc |-> MouseConfig]

Mute == [r8 |-> <<>>, r18 |-> <<>>, rc |-> <<>>]

\* what is plugged where: a mouse on port 1; whatever is addressed while
\* another port was the last to change answers no request
Attached(port) == IF port = 1 THEN Mouse ELSE Mute

\* the return value of usb_get_descriptor / usb_get_descriptor_early
RetOf(answer) == IF answer = <<>> THEN 0 - 1 ELSE Len(answer)

LowestFree(m) == CHOOSE n \in DevIds : ~m.dev[n].alloc /\ \A k \in DevIds : ~m.dev[k].alloc => n <= k

\* a variant of CreateDevice with a seeded fault: the wrong status constant
CreateDevice_Configured(m, n, devadr) ==
    [m EXCEPT !.dev[n] = [zalloc_usb_device EXCEPT !.devnum = devadr,
                                                   !.portno = m.host.last_changed_port,
                                                   !.bStatus = UD_STATUS_CONFIGURED]]

\* new_usb_device, "new device": zalloc_usb_device() into slot n, then
\* devnum, portno and bStatus are set
CreateDevice(m, n, devadr) ==
    [m EXCEPT !.dev[n] = [zalloc_usb_device EXCEPT !.devnum = devadr,
                                                   !.portno = m.host.last_changed_port,
                                                   !.bStatus = UD_STATUS_ADDRESSED]]

\* a variant of LinkDevice with a seeded fault: the old head's prev is not set
LinkDevice_NoPrev(m, n) ==
    [m EXCEPT !.dev[n].next = m.host.device, !.host.device = n]

\* new_usb_device, "link into device list"
LinkDevice(m, n) ==
    LET nx == m.host.device
        m1 == [m EXCEPT !.dev[n].next = nx]
        m2 == IF nx # NULL THEN [m1 EXCEPT !.dev[nx].prev = n] ELSE m1
    IN  [m2 EXCEPT !.host.device = n]

\* "if (ret > 0) parse_descriptor(usbhc, desc, buf, ret, dev)" on the answer
\* to one GetDescriptor request; r is the device record and the fault flag the
\* call has so far
ParseAnswer(desc, answer, r) ==
    IF ~r.fault /\ RetOf(answer) > 0
    THEN parse_descriptor(desc, answer, RetOf(answer), r.d)
    ELSE r

\* the device record r.d the parses have left is that of dev; a fault of a
\* parse is one of the call
Parsed(m, n, r) == [m EXCEPT !.dev[n] = r.d, !.panic = r.fault]

\* new_usb_device, the three GetDescriptor requests: the (DEVICE, 8) answer
\* only yields pktsz, a parameter of the two requests that follow; the
\* (DEVICE, 18) and (CONFIG, 255) answers are parsed
FetchDescriptors(m, n, env) ==
    Parsed(m, n, ParseAnswer(USB_DT_CONFIG, env.rc,
                             ParseAnswer(USB_DT_DEVICE, env.r18,
                                         [d |-> m.dev[n], fault |-> FALSE])))

\* new_usb_device, "register a hook for SetConfiguration()" and return
RegisterSetConfiguration(m, devadr, n) ==
    IF m.panic
    THEN m
    ELSE [m EXCEPT !.host = usb_hook_register(m.host, USB_HOOK_REPLY, devadr,
                                              pat_setconf, "device_state_change", n),
                   !.ret = USB_HOOK_PASS]

\* new_usb_device from "new device" on: the device is created, linked at the
\* head of the chain, its descriptors are fetched and parsed, and the hook for
\* SetConfiguration() is registered
Enumerate(m, devadr, env) ==
    LET n == LowestFree(m)
    IN  RegisterSetConfiguration(
            FetchDescriptors(usb_find_devices(LinkDevice(CreateDevice(m, n, devadr), n)),
                             n, env),
            devadr, n)

\* new_usb_device(usbhc, urb, arg)
new_usb_device(m, urb, env) ==
    LET devadr == (urb.wValue % 256) % 128
        M1 == IF get_device_by_address(m, devadr) # NULL
              THEN free_device(m, IntToPtr(devadr))
              ELSE {m}
        M2 == UNION {IF ~m1.panic /\ get_device_by_port(m1, m1.host.last_changed_port) # NULL
                     THEN free_device(m1, IntToPtr(devadr))
                     ELSE {m1} : m1 \in M1}
    IN  {IF m2.panic THEN m2 ELSE Enumerate(m2, devadr, env) : m2 \in M2}

\* usb_init_device_monitor(host) on the zeroed host
usb_init_device_monitor(h) ==
    usb_hook_register(h, USB_HOOK_REPLY, 0, pat_setadr, "new_usb_device", NULL)

ZeroHost ==
    [device |-> NULL, last_changed_port |-> 0,
     hook |-> [p \in 1..USB_HOOK_NUM_PHASE |-> <<>>]]

(***************************************************************************)
(* The parser on its own: parse_descriptor applied once to an answer and a *)
(* device record.  parse holds the arguments of the call (desc, buf, len,  *)
(* and the device record before the call, old), the device record the call *)
(* has left (dev), the cursors extract_config_descriptors ended with       *)
(* (walk), the blocks handed to free_config_descriptors that are still     *)
(* allocated (unfreed), and whether the call is still to be made, has      *)
(* returned or has crashed.                                                *)
(***************************************************************************)
\* CONFIG records: bNumInterfaces 1, bNumInterfaces 0, and one cut short
\* after bNumInterfaces (bLength 5)
ConfigRecord == <<9, 2, 0, 0, 1, 1, 0, 128, 50>>

BareConfigRecord == <<9, 2, 0, 0, 0, 1, 0, 128, 50>>

ShortConfigRecord == <<5, 2, 0, 0, 1>>

\* INTERFACE records: alt-setting 0 with bNumEndpoints 1, alt-setting 1 with
\* bNumEndpoints 2
InterfaceRecord == <<9, 4, 0, 0, 1, 3, 1, 2, 0>>

AltInterfaceRecord == <<9, 4, 0, 1, 2, 3, 1, 2, 0>>

EndpointRecord == <<7, 5, 129, 3, 4, 0, 10>>

\* a record of a non-standard type (class-specific) and one with bLength 0
ClassRecord == <<3, 36, 1>>

ZeroRecord == <<0, 0>>

\* a class-specific record of 9 bytes of which 3 have arrived: at the end of
\* an answer it is cut short, elsewhere the bytes behind it are its body
CutRecord == <<9, 33, 17>>

RecordKinds ==
    {ConfigRecord, BareConfigRecord, ShortConfigRecord, InterfaceRecord,
     AltInterfaceRecord, EndpointRecord, ClassRecord, ZeroRecord, CutRecord}

RECURSIVE RecordLists(_)
\* the sequences of at most n records
RecordLists(n) ==
    IF n = 0
    THEN {<<>>}
    ELSE {<<>>} \cup {<<r>> \o l : r \in RecordKinds, l \in RecordLists(n - 1)}

RECURSIVE Flatten(_)
\* the bytes of a sequence of records, as the device sends them
Flatten(l) == IF l = <<>> THEN <<>> ELSE Head(l) \o Flatten(Tail(l))

\* the CONFIG answers: usb_get_descriptor_early returned their length (> 0)
ConfigAnswers == {Flatten(l) : l \in RecordLists(MaxRecords) \ {<<>>}}

KeyboardDevice == <<18, 1, 16, 1, 0, 0, 0, 64, 242, 5, 1, 0, 16, 1, 1, 2, 3, 1>>

\* the DEVICE answers: 8 or 18 bytes of a device descriptor
DeviceAnswers == {SubSeq(MouseDevice, 1, 8), SubSeq(KeyboardDevice, 1, 8),
                  MouseDevice, KeyboardDevice}

\* the device records parse_descriptor is applied to: the newborn of
\* new_usb_device, the newborn after its DEVICE answer was parsed, and a
\* device that already carries a descriptor and a configuration tree
NewbornDevice ==
    [zalloc_usb_device EXCEPT !.devnum = 1, !.portno = 1, !.bStatus = UD_STATUS_ADDRESSED]

DescribedDevice == [NewbornDevice EXCEPT !.descriptor = MouseDevice]

PopulatedDevice ==
    parse_descriptor(USB_DT_CONFIG, MouseConfig, Len(MouseConfig),
                     [NewbornDevice EXCEPT !.descriptor = KeyboardDevice]).d

NoWalk == ExtractInit @@ [ret |-> 0]

ParseCall(desc, buf, d) ==
    [desc |-> desc, buf |-> buf, len |-> Len(buf), old |-> d, dev |-> d,
     walk |-> NoWalk, unfreed |-> {}, state |-> "ready"]

ParseInputs ==
    {ParseCall(USB_DT_DEVICE, b, d) :
        b \in DeviceAnswers, d \in {NewbornDevice, PopulatedDevice}}
    \cup
    {ParseCall(USB_DT_CONFIG, b, d) :
        b \in ConfigAnswers, d \in {DescribedDevice, PopulatedDevice}}

\* no call of the parser on its own
NoParse ==
    [desc |-> 0, buf |-> <<>>, len |-> 0, old |-> FreeSlot, dev |-> FreeSlot,
     walk |-> NoWalk, unfreed |-> {}, state |-> "none"]

(***************************************************************************)
(* The CPUs.  cpu.ins is the CPU that runs new_usb_device, cpu.rem the CPU  *)
(* that runs handle_connect_status and cpu.rst the CPU that runs           *)
(* handle_port_reset: where each stands (pc), its local variables, and the *)
(* last call it made out of this file (ext) with the locks it held at that *)
(* moment.  lock tells which CPU holds host->lock_hk and each              *)
(* dev->lock_dev.                                                          *)
(***************************************************************************)
\* no call out of this file made yet
NoExt == [name |-> "none", held |-> {}]

\* the CPU of new_usb_device before the call: dev, devadr and pktsz are its
\* locals, udev the port on which the device opened by usb_open answers,
\* trace what the call has done so far
IdleIns ==
    [pc |-> "start", dev |-> NULL, devadr |-> 0, pktsz |-> 0, udev |-> 0,
     trace |-> <<>>, ext |-> NoExt]

\* the CPU of a port-status callback before the call: portno and status are
\* its arguments, dev and phase the locals of free_device, old the device
\* record dev pointed to when it was found, unfreed the blocks that
\* free_config_descriptors left allocated
IdleRem ==
    [pc |-> "start", dev |-> NULL, phase |-> 0, portno |-> 0, status |-> 0,
     old |-> FreeSlot, unfreed |-> {}, fault |-> FALSE, ext |-> NoExt]

\* known: the addresses of the chain before the calls
NoCpu == [ins |-> IdleIns, rem |-> IdleRem, rst |-> IdleRem, known |-> {}]

\* spinlock_init: no lock is held
NoLock == [hk |-> "none", dev |-> [n \in DevIds |-> "none"]]

(***************************************************************************)
(* The state machine.  call holds the last handler call made: the handler, *)
(* the value it returned (-1 when it never returned) and the value of its  *)
(* local variable dev (NULL when the handler never assigned it).           *)
(***************************************************************************)
Mem == [host |-> host, dev |-> dev, bus |-> bus, panic |-> panicked, ret |-> 0]

NoCall == [op |-> "none", ret |-> 0, dev |-> NULL]

Store(m, op, d) ==
    /\ host' = m.host
    /\ dev' = m.dev
    /\ bus' = m.bus
    /\ panicked' = m.panic
    /\ call' = [op |-> op, ret |-> IF m.panic THEN 0 - 1 ELSE m.ret, dev |-> d]
    /\ UNCHANGED <<parse, cpu, lock>>

\* a hook of the REPLY chain matches the transfer: address and pattern
Matches(address, pattern, callback) ==
    \E i \in DOMAIN host.hook[USB_HOOK_REPLY] :
        LET k == host.hook[USB_HOOK_REPLY][i]
        IN  k.devadr = address /\ k.pattern = pattern /\ k.callback = callback

\* the registry after usb_init_device_monitor, before any event
InitRegistry ==
    /\ host = usb_init_device_monitor(ZeroHost)
    /\ dev = [n \in DevIds |-> FreeSlot]
    /\ bus = [exists |-> FALSE, device |-> NULL]
    /\ panicked = FALSE
    /\ call = NoCall

Init ==
    /\ InitRegistry
    /\ parse = NoParse
    /\ cpu = NoCpu
    /\ lock = NoLock

\* the host controller reports a port status word
ConnectStatus(p, s) ==
    /\ ~panicked
    /\ \E m \in handle_connect_status(Mem, p, s) :
          Store(m, "handle_connect_status",
                IF BitSet(s, 2) THEN get_device_by_port(Mem, p + 1) ELSE NULL)

\* the host controller reports a port status word and names its reset bit
PortReset(p, s, o) ==
    /\ ~panicked
    /\ \E m \in handle_port_reset(Mem, p, s, o) :
          Store(m, "handle_port_reset",
                IF BitSet(s, ResetFlag(o)) THEN get_device_by_port(Mem, p + 1) ELSE NULL)

\* the reply of a SET_ADDRESS(w) to the default address is observed and the
\* hook registered by usb_init_device_monitor matches it
SetAddress(w) ==
    /\ ~panicked
    /\ Matches(0, pat_setadr, "new_usb_device")
    /\ \E n \in DevIds : ~dev[n].alloc
    /\ \E m \in new_usb_device(Mem, [address |-> 0, wValue |-> w, dev |-> NULL],
                               Attached(host.last_changed_port)) :
          Store(m, "new_usb_device", IF m.panic THEN NULL ELSE m.host.device)

\* the reply of a SET_CONFIGURATION to address a is observed and a hook
\* registered by new_usb_device matches it; urb->dev is the device found at
\* the transfer's address
SetConfiguration(a) ==
    /\ ~panicked
    /\ Matches(a, pat_setconf, "device_state_change")
    /\ LET urb == [address |-> a, wValue |-> 1, dev |-> get_device_by_address(Mem, a)]
       IN  \E m \in device_state_change(Mem, urb) :
              Store(m, "device_state_change", urb.dev)

Next ==
    \/ \E p \in PortIndexes, s \in StatusWords : ConnectStatus(p, s)
    \/ \E p \in PortIndexes, s \in StatusWords, o \in ResetOffsets : PortReset(p, s, o)
    \/ \E w \in SetupWValues : SetAddress(w)
    \/ \E a \in Addresses : SetConfiguration(a)

Spec == Init /\ [][Next]_vars

(***************************************************************************)
(* The parser applied to one answer.                                       *)
(***************************************************************************)
InitParse ==
    /\ InitRegistry
    /\ parse \in ParseInputs
    /\ cpu = NoCpu
    /\ lock = NoLock

\* parse_descriptor(usbhc, USB_DT_DEVICE, buf, ret, dev)
ParseDeviceAnswer ==
    /\ parse.state = "ready"
    /\ parse.desc = USB_DT_DEVICE
    /\ parse' = [parse EXCEPT
                    !.dev = parse_descriptor(USB_DT_DEVICE, parse.buf, parse.len, parse.old).d,
                    !.state = "returned"]
    /\ UNCHANGED <<host, dev, bus, panicked, call, cpu, lock>>

\* the call of parse_descriptor(usbhc, USB_DT_CONFIG, ...) whose walk ended
\* with the cursors x: a walk that went through a NULL cursor has either
\* crashed the call or gone on
ConfigParsed(x) ==
    \E crash \in (IF x.fault THEN BOOLEAN ELSE {FALSE}) :
        parse' = [parse EXCEPT
                    !.walk = x,
                    !.dev = IF crash THEN parse.old ELSE AfterExtract(parse.old, x).d,
                    !.unfreed = IF crash THEN {} ELSE Unfreed(parse.old, x),
                    !.state = IF crash THEN "crashed" ELSE "returned"]

\* parse_descriptor(usbhc, USB_DT_CONFIG, buf, ret, dev)
ParseConfigAnswer ==
    /\ parse.state = "ready"
    /\ parse.desc = USB_DT_CONFIG
    /\ ConfigParsed(extract_config_descriptors(parse.buf, parse.len))
    /\ UNCHANGED <<host, dev, bus, panicked, call, cpu, lock>>

NextParse == ParseDeviceAnswer \/ ParseConfigAnswer

ParseSpec == InitParse /\ [][NextParse]_vars

(***************************************************************************)
(* new_usb_device on one CPU and handle_connect_status on another, one     *)
(* statement that touches shared memory at a time.                         *)
(***************************************************************************)
\* the values of dev->handle: NULL, a handle whose remove callback is NULL,
\* a handle that has a remove callback
Handles == {0, 1, 2}

\* dev->handle->remove of a handle that is not NULL
remove(h) == IF h = 2 THEN "remove" ELSE "NULL"

\* the wValue of the SET_ADDRESS request handled on cpu.ins
RaceWValues == {2, 3}

\* the locks CPU c holds
Held(c) ==
    (IF lock.hk = c THEN {<<"lock_hk", 0>>} ELSE {}) \cup
    {<<"lock_dev", n>> : n \in {k \in DevIds : lock.dev[k] = c}}

\* the memory after usb_init_device_monitor, before any event
BootMem ==
    [host |-> usb_init_device_monitor(ZeroHost), dev |-> [n \in DevIds |-> FreeSlot],
     bus |-> [exists |-> FALSE, device |-> NULL], panic |-> FALSE, ret |-> 0]

RECURSIVE Enumerated(_)
\* the memory after k devices were plugged and enumerated one after the
\* other, the k-th on port k with address k
Enumerated(k) ==
    IF k = 0
    THEN BootMem
    ELSE Enumerate([Enumerated(k - 1) EXCEPT !.host.last_changed_port = k], k, Attached(k))

\* class drivers have left the handles hs in the devices of m
WithHandles(m, hs) ==
    [m EXCEPT !.dev = [n \in DevIds |-> IF m.dev[n].alloc
                                        THEN [m.dev[n] EXCEPT !.handle = hs[n]]
                                        ELSE m.dev[n]]]

\* the memories the two calls start from: one device or more enumerated,
\* and a connect seen on the next port
RaceInputs ==
    {[WithHandles(Enumerated(k), hs) EXCEPT !.host.last_changed_port = k + 1] :
        k \in 1..MaxDev, hs \in [DevIds -> Handles]}

\* the step of a CPU has left the memory m
Commit(m) ==
    /\ host' = m.host
    /\ dev' = m.dev
    /\ bus' = m.bus
    /\ panicked' = m.panic
    /\ UNCHANGED <<call, parse>>

\* a store through a pointer to a freed object: the call faults or the store
\* is lost
WildStore(m) == {Panic(m), m}

\* new_usb_device, "confirm the address is new" and "confirm the port is
\* new": both call free_device(usbhc, devadr)
EvictColliding(m, devadr) ==
    LET M1 == IF get_device_by_address(m, devadr) # NULL
              THEN free_device(m, IntToPtr(devadr))
              ELSE {m}
    IN  UNION {IF ~m1.panic /\ get_device_by_port(m1, m1.host.last_changed_port) # NULL
               THEN free_device(m1, IntToPtr(devadr))
               ELSE {m1} : m1 \in M1}

\* the device of the thread is created, or the call has never come back
\* from free_device(usbhc, devadr)
Created(m2, devadr) ==
    IF m2.panic
    THEN /\ Commit(m2)
         /\ cpu' = [cpu EXCEPT !.ins.pc = "collision", !.ins.devadr = devadr]
         /\ UNCHANGED lock
    ELSE /\ Commit(CreateDevice(m2, LowestFree(m2), devadr))
         /\ cpu' = [cpu EXCEPT !.ins.pc = "link_next", !.ins.dev = LowestFree(m2),
                               !.ins.devadr = devadr,
                               !.ins.trace = <<"zalloc_usb_device">>]
         /\ lock' = [lock EXCEPT !.dev[LowestFree(m2)] = "none"]

\* new_usb_device up to "link into device list": the address is taken from
\* the setup packet, colliding devices are looked for, the device is
\* allocated and its lock initialised, taken and released around the
\* assignments of devnum, portno and bStatus
InsStart(w) ==
    /\ ~panicked
    /\ cpu.ins.pc = "start"
    /\ \E n \in DevIds : ~dev[n].alloc
    /\ \E m2 \in EvictColliding(Mem, (w % 256) % 128) : Created(m2, (w % 256) % 128)

\* dev->next = usbhc->device
InsLinkNext ==
    /\ ~panicked
    /\ cpu.ins.pc = "link_next"
    /\ Commit([Mem EXCEPT !.dev[cpu.ins.dev].next = host.device])
    /\ cpu' = [cpu EXCEPT !.ins.pc = "link_prev"]
    /\ UNCHANGED lock

\* if (dev->next) dev->next->prev = dev
InsLinkPrev ==
    /\ ~panicked
    /\ cpu.ins.pc = "link_prev"
    /\ LET nx == dev[cpu.ins.dev].next
       IN  \E m \in (IF nx = NULL THEN {Mem}
                     ELSE IF IsDevice(Mem, nx)
                     THEN {[Mem EXCEPT !.dev[nx].prev = cpu.ins.dev]}
                     ELSE WildStore(Mem)) : Commit(m)
    /\ cpu' = [cpu EXCEPT !.ins.pc = "link_head"]
    /\ UNCHANGED lock

\* usbhc->device = dev
InsLinkHead ==
    /\ ~panicked
    /\ cpu.ins.pc = "link_head"
    /\ Commit([Mem EXCEPT !.host.device = cpu.ins.dev])
    /\ cpu' = [cpu EXCEPT !.ins.pc = "find_devices", !.ins.trace = Append(@, "link")]
    /\ UNCHANGED lock

\* usb_init(); usb_find_busses(); usb_find_devices(); udev = usb_open(dev)
InsFindDevices ==
    /\ ~panicked
    /\ cpu.ins.pc = "find_devices"
    /\ Commit(usb_find_devices(Mem))
    /\ cpu' = [cpu EXCEPT !.ins.pc = "get8",
                          !.ins.udev = IF IsDevice(Mem, cpu.ins.dev)
                                       THEN dev[cpu.ins.dev].portno ELSE 0,
                          !.ins.ext = [name |-> "usb_find_devices", held |-> Held("ins")]]
    /\ UNCHANGED lock

\* a variant of AnswerParsed with a seeded fault: the answer to the 8-byte
\* request is parsed too
AnswerParsed_Probe(size, answer) == RetOf(answer) > 0

\* the answer to the request for size bytes is handed to parse_descriptor:
\* "if (ret > 0) parse_descriptor(...)" follows the 18-byte and the 255-byte
\* request, the answer to the 8-byte request only yields pktsz
AnswerParsed(size, answer) == size # 8 /\ RetOf(answer) > 0

\* pktsz = (ret >= 8) ? (u16)buf[7] : 0 after the 8-byte request
PacketSize(t, size, answer) ==
    IF size # 8 THEN t.pktsz
    ELSE IF RetOf(answer) >= 8 THEN ByteAt(answer, 7) ELSE 0

\* the thread t after its request name for size bytes got the answer
Requested(t, name, size, answer, next) ==
    [t EXCEPT !.pc = next,
              !.pktsz = PacketSize(t, size, answer),
              !.ext = [name |-> name, held |-> Held("ins")],
              !.trace = @ \o <<name>> \o
                        (IF AnswerParsed(size, answer) THEN <<"parse_descriptor">> ELSE <<>>)]

\* memset(buf, 0, 255); ret = usb_get_descriptor...(udev, ..., desc, 0, buf,
\* size) and what the code does with the answer; the answer is parsed into
\* *dev, freed or not
InsRequest(name, desc, size, answer, next) ==
    /\ ~panicked
    /\ \E m \in (IF ~AnswerParsed(size, answer)
                 THEN {Mem}
                 ELSE IF IsDevice(Mem, cpu.ins.dev)
                 THEN {Parsed(Mem, cpu.ins.dev,
                              parse_descriptor(desc, answer, RetOf(answer), dev[cpu.ins.dev]))}
                 ELSE WildStore(Mem)) : Commit(m)
    /\ cpu' = [cpu EXCEPT !.ins = Requested(cpu.ins, name, size, answer, next)]
    /\ UNCHANGED lock

\* issue GetDescriptor(DEVICE, 8) for bMaxPacketSize
InsGet8 ==
    /\ cpu.ins.pc = "get8"
    /\ InsRequest("GET_DESCRIPTOR(DEVICE,8)", USB_DT_DEVICE, 8,
                  Attached(cpu.ins.udev).r8, "get18")

\* GetDescriptor(DEVICE, 18) for device descriptor
InsGet18 ==
    /\ cpu.ins.pc = "get18"
    /\ InsRequest("GET_DESCRIPTOR(DEVICE,18)", USB_DT_DEVICE, 18,
                  Attached(cpu.ins.udev).r18, "getconf")

\* GetDescriptor(CONFIG, 255) for config and other descriptors
InsGetConf ==
    /\ cpu.ins.pc = "getconf"
    /\ InsRequest("GET_DESCRIPTOR(CONFIG,255)", USB_DT_CONFIG, 255,
                  Attached(cpu.ins.udev).rc, "hook_lock")

\* spinlock_lock(&usbhc->lock_hk)
InsHookLock ==
    /\ ~panicked
    /\ cpu.ins.pc = "hook_lock"
    /\ lock.hk = "none"
    /\ lock' = [lock EXCEPT !.hk = "ins"]
    /\ cpu' = [cpu EXCEPT !.ins.pc = "hook_register"]
    /\ UNCHANGED <<host, dev, bus, panicked, call, parse>>

\* usb_hook_register(usbhc, USB_HOOK_REPLY, ..., device_state_change, NULL, dev)
InsHookRegister ==
    /\ ~panicked
    /\ cpu.ins.pc = "hook_register"
    /\ Commit(RegisterSetConfiguration(Mem, cpu.ins.devadr, cpu.ins.dev))
    /\ cpu' = [cpu EXCEPT !.ins.pc = "hook_unlock",
                          !.ins.trace = Append(@, "usb_hook_register")]
    /\ UNCHANGED lock

\* spinlock_unlock(&usbhc->lock_hk); return USB_HOOK_PASS
InsHookUnlock ==
    /\ ~panicked
    /\ cpu.ins.pc = "hook_unlock"
    /\ lock' = [lock EXCEPT !.hk = "none"]
    /\ cpu' = [cpu EXCEPT !.ins.pc = "done"]
    /\ UNCHANGED <<host, dev, bus, panicked, call, parse>>

\* handle_connect_status up to the call of free_device: with the disconnect
\* bit set the device of port portno + 1 is looked for
RemStart(p, s) ==
    /\ ~panicked
    /\ cpu.rem.pc = "start"
    /\ LET d == IF BitSet(s, 2) THEN get_device_by_port(Mem, p + 1) ELSE NULL
       IN  cpu' = [cpu EXCEPT !.rem.portno = p, !.rem.status = s, !.rem.dev = d,
                              !.rem.old = IF d = NULL THEN FreeSlot ELSE dev[d],
                              !.rem.pc = IF d = NULL THEN "connect" ELSE "hooks"]
    /\ UNCHANGED <<host, dev, bus, panicked, call, parse, lock>>

\* a hook of the phase has back-link d
HookTo(h, phase, d) == \E i \in DOMAIN h.hook[phase] : h.hook[phase][i].dev = d

\* the memories after a step of free_device on CPU c that goes through dev
\* and leaves m: when another CPU has already released *dev the step reads
\* or writes a freed object
Through(c, m) == IF IsDevice(Mem, cpu[c].dev) THEN {m} ELSE WildStore(Mem)

\* free_device, one round of "remove hooks which are related with the
\* device": each hook of the phase whose back-link is dev is unregistered
\* with lock_hk taken and released around the call
RemHooks(c) ==
    /\ ~panicked
    /\ cpu[c].pc = "hooks"
    /\ HookTo(host, cpu[c].phase + 1, cpu[c].dev) => lock.hk = "none"
    /\ Commit([Mem EXCEPT !.host = UnregisterHooksOf(host, cpu[c].phase + 1, cpu[c].dev)])
    /\ cpu' = [cpu EXCEPT ![c].phase = @ + 1,
                          ![c].pc = IF cpu[c].phase + 1 < USB_HOOK_NUM_PHASE
                                     THEN "hooks" ELSE "lock_dev"]
    /\ UNCHANGED lock

\* spinlock_lock(&dev->lock_dev)
RemLockDev(c) ==
    /\ ~panicked
    /\ cpu[c].pc = "lock_dev"
    /\ lock.dev[cpu[c].dev] = "none"
    /\ lock' = [lock EXCEPT !.dev[cpu[c].dev] = c]
    /\ cpu' = [cpu EXCEPT ![c].pc = "config"]
    /\ UNCHANGED <<host, dev, bus, panicked, call, parse>>

\* if (dev->config) free_config_descriptors(dev->config, 1)
RemConfig(c) ==
    /\ ~panicked
    /\ cpu[c].pc = "config"
    /\ \E m \in Through(c, Mem) : Commit(m)
    /\ cpu' = [cpu EXCEPT ![c].pc = "remove",
                          ![c].unfreed = IF dev[cpu[c].dev].config # <<>>
                                         THEN free_config_descriptors(dev[cpu[c].dev].config, 1)
                                         ELSE {}]
    /\ UNCHANGED lock

\* dev->handle->remove(dev): a call through the callback of handle h, made
\* with the locks held; the call through a NULL callback faults
CallRemove(t, h, held) ==
    IF remove(h) = "NULL"
    THEN [t EXCEPT !.fault = TRUE]
    ELSE [t EXCEPT !.ext = [name |-> remove(h), held |-> held]]

\* a variant of free_device_remove with a seeded fault: the callback is not
\* tested
free_device_remove_NoTest(t, h, held) ==
    IF h # NULL THEN CallRemove(t, h, held) ELSE t

\* if (dev->handle && dev->handle->remove) dev->handle->remove(dev)
free_device_remove(t, h, held) ==
    IF h # NULL /\ remove(h) # "NULL" THEN CallRemove(t, h, held) ELSE t

\* the thread record t after a step of cpu[c]; a fault of the step is one
\* of the call
RemStepped(c, t, pc) ==
    /\ cpu' = [cpu EXCEPT ![c] = [t EXCEPT !.pc = pc]]
    /\ panicked' = t.fault
    /\ UNCHANGED <<host, dev, bus, call, parse, lock>>

RemRemove(c) ==
    /\ ~panicked
    /\ cpu[c].pc = "remove"
    /\ \E t \in (IF IsDevice(Mem, cpu[c].dev)
                 THEN {free_device_remove(cpu[c], dev[cpu[c].dev].handle, Held(c))}
                 ELSE {cpu[c], [cpu[c] EXCEPT !.fault = TRUE]}) :
          RemStepped(c, t, "unlink")

\* if (host->device == dev) ... else { ASSERT(dev->prev != NULL);
\* dev->prev->next = dev->next; }
RemUnlink(c) ==
    /\ ~panicked
    /\ cpu[c].pc = "unlink"
    /\ LET d == cpu[c].dev
           pv == dev[d].prev
       IN  IF host.device = d
           THEN /\ Commit(Mem)
                /\ cpu' = [cpu EXCEPT ![c].pc = "unlink_head"]
           ELSE /\ \E m \in (IF ~IsDevice(Mem, d) THEN WildStore(Mem)
                             ELSE IF pv = NULL THEN {Panic(Mem)}
                             ELSE IF IsDevice(Mem, pv)
                             THEN {[Mem EXCEPT !.dev[pv].next = dev[d].next]}
                             ELSE WildStore(Mem)) : Commit(m)
                /\ cpu' = [cpu EXCEPT ![c].pc = "unlink_next"]
    /\ UNCHANGED lock

\* host->device = dev->next
RemUnlinkHead(c) ==
    /\ ~panicked
    /\ cpu[c].pc = "unlink_head"
    /\ \E m \in Through(c, [Mem EXCEPT !.host.device = dev[cpu[c].dev].next]) : Commit(m)
    /\ cpu' = [cpu EXCEPT ![c].pc = "bus"]
    /\ UNCHANGED lock

\* bus = usb_get_bus(host); if (bus) bus->device = bus->host->device
RemBus(c) ==
    /\ ~panicked
    /\ cpu[c].pc = "bus"
    /\ Commit(MirrorBus(Mem))
    /\ cpu' = [cpu EXCEPT ![c].pc = "unlink_next",
                          ![c].ext = [name |-> "usb_get_bus", held |-> Held(c)]]
    /\ UNCHANGED lock

\* if (dev->next) dev->next->prev = dev->prev
RemUnlinkNext(c) ==
    /\ ~panicked
    /\ cpu[c].pc = "unlink_next"
    /\ LET d == cpu[c].dev
           nx == dev[d].next
       IN  \E m \in (IF ~IsDevice(Mem, d) THEN WildStore(Mem)
                     ELSE IF nx = NULL THEN {Mem}
                     ELSE IF IsDevice(Mem, nx)
                     THEN {[Mem EXCEPT !.dev[nx].prev = dev[d].prev]}
                     ELSE WildStore(Mem)) : Commit(m)
    /\ cpu' = [cpu EXCEPT ![c].pc = "unlock"]
    /\ UNCHANGED lock

\* spinlock_unlock(&dev->lock_dev)
RemUnlock(c) ==
    /\ ~panicked
    /\ cpu[c].pc = "unlock"
    /\ lock' = [lock EXCEPT !.dev[cpu[c].dev] = "none"]
    /\ cpu' = [cpu EXCEPT ![c].pc = "free"]
    /\ UNCHANGED <<host, dev, bus, panicked, call, parse>>

\* free(dev); return 0, back in handle_connect_status or, in
\* handle_port_reset, at its return 0
RemFree(c) ==
    /\ ~panicked
    /\ cpu[c].pc = "free"
    /\ \E m \in Through(c, [Mem EXCEPT !.dev[cpu[c].dev] = FreeSlot]) : Commit(m)
    /\ cpu' = [cpu EXCEPT ![c].pc = IF c = "rem" THEN "connect" ELSE "done"]
    /\ UNCHANGED lock

\* if (status & 0x0001) ub_host->last_changed_port = portno + 1; return 0
RemConnect ==
    /\ ~panicked
    /\ cpu.rem.pc = "connect"
    /\ Commit(IF BitSet(cpu.rem.status, 1)
              THEN [Mem EXCEPT !.host.last_changed_port = cpu.rem.portno + 1]
              ELSE Mem)
    /\ cpu' = [cpu EXCEPT !.rem.pc = "done"]
    /\ UNCHANGED lock

\* the registry holds devices, a SET_ADDRESS reply is about to be handled on
\* one CPU and a port-status word on the other
InitRace ==
    /\ \E m \in RaceInputs :
          /\ host = m.host
          /\ dev = m.dev
          /\ bus = m.bus
          /\ cpu = [NoCpu EXCEPT !.known = {m.dev[n].devnum : n \in Range(Chain(m))}]
    /\ panicked = FALSE
    /\ call = NoCall
    /\ parse = NoParse
    /\ lock = NoLock

NextRace ==
    \/ \E w \in RaceWValues : InsStart(w)
    \/ InsLinkNext
    \/ InsLinkPrev
    \/ InsLinkHead
    \/ InsFindDevices
    \/ InsGet8
    \/ InsGet18
    \/ InsGetConf
    \/ InsHookLock
    \/ InsHookRegister
    \/ InsHookUnlock
    \/ \E p \in PortIndexes, s \in StatusWords : RemStart(p, s)
    \/ RemHooks("rem")
    \/ RemLockDev("rem")
    \/ RemConfig("rem")
    \/ RemRemove("rem")
    \/ RemUnlink("rem")
    \/ RemUnlinkHead("rem")
    \/ RemBus("rem")
    \/ RemUnlinkNext("rem")
    \/ RemUnlock("rem")
    \/ RemFree("rem")
    \/ RemConnect

RaceSpec == InitRace /\ [][NextRace]_vars

(***************************************************************************)
(* Two port-status callbacks, handle_connect_status on one CPU and         *)
(* handle_port_reset on another, next to the collision handling of         *)
(* new_usb_device.                                                         *)
(***************************************************************************)
\* handle_port_reset up to the call of free_device: with the reset flag set
\* the device of port portno + 1 is looked for and the port becomes the last
\* changed one
RstStart(p, s, o) ==
    /\ ~panicked
    /\ cpu.rst.pc = "start"
    /\ LET d == IF BitSet(s, ResetFlag(o)) THEN get_device_by_port(Mem, p + 1) ELSE NULL
       IN  /\ cpu' = [cpu EXCEPT !.rst.portno = p, !.rst.status = s, !.rst.dev = d,
                                 !.rst.old = IF d = NULL THEN FreeSlot ELSE dev[d],
                                 !.rst.pc = IF d = NULL THEN "done" ELSE "hooks"]
           /\ Commit(IF d = NULL THEN Mem
                     ELSE [Mem EXCEPT !.host.last_changed_port = p + 1])
    /\ UNCHANGED lock

\* the CPUs that run free_device step by step
Removers == {"rem", "rst"}

NextReset ==
    \/ \E w \in RaceWValues : InsStart(w)
    \/ \E p \in PortIndexes, s \in StatusWords : RemStart(p, s)
    \/ RemConnect
    \/ \E p \in PortIndexes, s \in StatusWords, o \in ResetOffsets : RstStart(p, s, o)
    \/ \E c \in Removers : RemHooks(c)
    \/ \E c \in Removers : RemLockDev(c)
    \/ \E c \in Removers : RemConfig(c)
    \/ \E c \in Removers : RemRemove(c)
    \/ \E c \in Removers : RemUnlink(c)
    \/ \E c \in Removers : RemUnlinkHead(c)
    \/ \E c \in Removers : RemBus(c)
    \/ \E c \in Removers : RemUnlinkNext(c)
    \/ \E c \in Removers : RemUnlock(c)
    \/ \E c \in Removers : RemFree(c)

ResetSpec == InitRace /\ [][NextReset]_vars

(***************************************************************************)
(* Vocabulary of the properties.                                           *)
(***************************************************************************)
MemNext == [host |-> host', dev |-> dev', bus |-> bus', panic |-> panicked', ret |-> 0]

\* the devices of the chain of m
InChain(m) == Range(Chain(m))

\* no hook of any phase of m has back-link d
NoHookTo(m, d) ==
    \A ph \in 1..USB_HOOK_NUM_PHASE : \A i \in DOMAIN m.host.hook[ph] :
        m.host.hook[ph][i].dev # d

\* d is met neither along next links nor along prev links of m
Unlinked(m, d) ==
    /\ m.host.device # d
    /\ \A e \in DevIds : m.dev[e].alloc => m.dev[e].next # d /\ m.dev[e].prev # d

\* the device address new_usb_device takes from the setup packet
AddressOf(w) == (w % 256) % 128

PortHandlers == {"handle_connect_status", "handle_port_reset"}

(***************************************************************************)
(* C1: in every reachable state no two devices of the host's chain have    *)
(* the same address and no two have the same port identifier.              *)
(* The code does not keep this: see C1_UniqueAddressAndPort's trace.       *)
(***************************************************************************)
C1_UniqueAddressAndPort ==
    \A d, e \in InChain(Mem) :
        d # e => dev[d].devnum # dev[e].devnum /\ dev[d].portno # dev[e].portno

(***************************************************************************)
(* C2: after any sequence of insertions and removals every device d of the *)
(* chain is the head or has d.prev.next = d, and has d.next.prev = d when  *)
(* d.next exists.                                                          *)
(***************************************************************************)
C2_LinksConsistent ==
    \A d \in InChain(Mem) :
        /\ d = host.device \/ (IsDevice(Mem, dev[d].prev) /\ dev[dev[d].prev].next = d)
        /\ dev[d].next # NULL => IsDevice(Mem, dev[d].next) /\ dev[dev[d].next].prev = d

\* a port event has removed a device from a chain that still holds another
C2_Witness ==
    /\ call.op \in PortHandlers
    /\ call.dev # NULL
    /\ ~panicked
    /\ InChain(Mem) # {}

(***************************************************************************)
(* C3: after free_device(host, d) returns, no hook of any phase chain has  *)
(* back-link d, and d is reachable from the chain neither by next nor by   *)
(* prev links.  (The port handlers call free_device on the device they     *)
(* looked up, call.dev, and touch no hook and no link after it.)           *)
(***************************************************************************)
C3_FreedLeavesNoTrace ==
    (call.op \in PortHandlers /\ call.dev # NULL /\ ~panicked) =>
        /\ NoHookTo(Mem, call.dev)
        /\ Unlinked(Mem, call.dev)
        /\ call.dev \notin InChain(Mem)

\* a reset has freed a device while the hook of another device stays
C3_Witness ==
    /\ call.op = "handle_port_reset"
    /\ call.dev # NULL
    /\ ~panicked
    /\ \E i \in DOMAIN host.hook[USB_HOOK_REPLY] :
          host.hook[USB_HOOK_REPLY][i].callback = "device_state_change"

(***************************************************************************)
(* C4: when SET_ADDRESS(a) is observed while the registry holds a device   *)
(* with address a, or a device whose port is the last-changed port, that   *)
(* incumbent is evicted (out of the chain, its hooks unregistered) before  *)
(* the newborn is inserted, and the newborn carries address a and the      *)
(* then-current last-changed port.                                         *)
(* The code does not do this: see C4_CollisionEvicts's trace.              *)
(***************************************************************************)
\* what identifies a device of m apart from its links
DevKey(m, d) == [m.dev[d] EXCEPT !.next = NULL, !.prev = NULL]

Keys(m, list) == [i \in DOMAIN list |-> DevKey(m, list[i])]

C4_CollisionEvicts ==
    [][\A w \in SetupWValues :
        (call'.op = "new_usb_device" /\ SetAddress(w)) =>
            LET a == AddressOf(w)
                byAddr == get_device_by_address(Mem, a)
                byPort == get_device_by_port(Mem, host.last_changed_port)
                kept == SelectSeq(Chain(Mem), LAMBDA d : d # byAddr /\ d # byPort)
                now == Chain(MemNext)
            IN  (byAddr # NULL \/ byPort # NULL) =>
                    /\ ~panicked'
                    /\ now # <<>>
                    /\ dev'[now[1]].devnum = a
                    /\ dev'[now[1]].portno = host.last_changed_port
                    /\ Keys(MemNext, Tail(now)) = Keys(Mem, kept)
                    /\ \A i \in DOMAIN host'.hook[USB_HOOK_REPLY] :
                          LET k == host'.hook[USB_HOOK_REPLY][i]
                          IN  k.dev # NULL => k.dev \in InChain(MemNext)
                    /\ Cardinality({i \in DOMAIN host'.hook[USB_HOOK_REPLY] :
                                      host'.hook[USB_HOOK_REPLY][i].dev # NULL}) = Len(now)
      ]_vars

(***************************************************************************)
(* C5: a device is never CONFIGURED, and never has its descriptor or its   *)
(* configuration tree populated, unless it was first created in state      *)
(* ADDRESSED and inserted into the registry: a device becomes CONFIGURED    *)
(* only from ADDRESSED while it is in the chain, and a descriptor or a      *)
(* configuration tree appears only on the device that the same SET_ADDRESS  *)
(* handling has created ADDRESSED and linked.                               *)
(***************************************************************************)
Populated(r) == r.alloc /\ (r.descriptor # ZeroDescriptor \/ r.config # <<>>)

Configured(r) == r.alloc /\ r.bStatus = UD_STATUS_CONFIGURED

C5_AddressedFirst ==
    [][\A d \in DevIds :
        /\ (Configured(dev'[d]) /\ ~Configured(dev[d])) =>
              /\ dev[d].alloc
              /\ dev[d].bStatus = UD_STATUS_ADDRESSED
              /\ d \in InChain(Mem)
        /\ (Populated(dev'[d]) /\ ~Populated(dev[d])) =>
              /\ ~dev[d].alloc
              /\ call'.op = "new_usb_device"
              /\ call'.dev = d
              /\ dev'[d].bStatus = UD_STATUS_ADDRESSED
              /\ d \in InChain(MemNext)
      ]_vars

\* a device whose descriptor and configuration tree were parsed has been
\* moved to CONFIGURED
C5_Witness ==
    \E d \in DevIds :
        /\ Configured(dev[d])
        /\ dev[d].descriptor # ZeroDescriptor
        /\ dev[d].config # <<>>
        /\ d \in InChain(Mem)

(***************************************************************************)
(* C6: when a SET_CONFIGURATION reply is observed for a device in state    *)
(* ADDRESSED, that device becomes CONFIGURED, and the chain, the device's   *)
(* address and port, and every other device are left unchanged.            *)
(***************************************************************************)
C6_SetConfigurationOnlyMarks ==
    [][\A a \in Addresses :
        (call'.op = "device_state_change" /\ SetConfiguration(a)) =>
            LET d == get_device_by_address(Mem, a)
            IN  (d # NULL /\ dev[d].bStatus = UD_STATUS_ADDRESSED) =>
                    /\ ~panicked'
                    /\ dev' = [dev EXCEPT ![d].bStatus = UD_STATUS_CONFIGURED]
                    /\ host' = host
                    /\ bus' = bus
      ]_vars

\* a device has been moved to CONFIGURED next to one that stayed ADDRESSED
C6_Witness ==
    /\ call.op = "device_state_change"
    /\ call.dev # NULL
    /\ dev[call.dev].bStatus = UD_STATUS_CONFIGURED
    /\ \E e \in InChain(Mem) : e # call.dev /\ dev[e].bStatus = UD_STATUS_ADDRESSED

(***************************************************************************)
(* C7: after handle_connect_status has processed a status word with the    *)
(* disconnect bit set for port index p, no device with port p+1 remains in  *)
(* the registry and no hook back-links to the removed device; if no device  *)
(* was on that port, the registry and the hook chains are unchanged.        *)
(* The code does not keep this: see C7_DisconnectClearsPort's trace.        *)
(***************************************************************************)
C7_DisconnectClearsPort ==
    [][\A p \in PortIndexes, s \in StatusWords :
        (call'.op = "handle_connect_status" /\ BitSet(s, 2) /\ ConnectStatus(p, s)) =>
            LET d == get_device_by_port(Mem, p + 1)
            IN  /\ get_device_by_port(MemNext, p + 1) = NULL
                /\ d # NULL => NoHookTo(MemNext, d) /\ Unlinked(MemNext, d)
                /\ d = NULL => /\ host'.device = host.device
                               /\ host'.hook = host.hook
                               /\ dev' = dev
      ]_vars

(***************************************************************************)
(* C8: whenever handle_connect_status processes a status word with the     *)
(* connect bit set for port index p, the last-changed port slot is p+1      *)
(* afterwards; when the connect bit is clear the call leaves the slot       *)
(* unchanged.                                                               *)
(***************************************************************************)
C8_ConnectRecordsPort ==
    [][\A p \in PortIndexes, s \in StatusWords :
        (call'.op = "handle_connect_status" /\ ConnectStatus(p, s)) =>
            /\ ~panicked'
            /\ host'.last_changed_port =
                  IF BitSet(s, 1) THEN p + 1 ELSE host.last_changed_port
      ]_vars

\* the slot is set although no device was ever created (the bus exists from
\* the first new_usb_device on), so only a connect bit can have set it
C8_Witness ==
    /\ call.op = "handle_connect_status"
    /\ host.last_changed_port = 2
    /\ ~bus.exists

(***************************************************************************)
(* C9 as stated: the slot is updated on every observed connect event and    *)
(* on every observed reset event: after any status word with the reset bit  *)
(* set for port index p is handled, the slot equals p+1, whether or not a   *)
(* device is registered on that port.                                       *)
(***************************************************************************)
C9_SlotOnEveryReset ==
    [][/\ \A p \in PortIndexes, s \in StatusWords :
             (call'.op = "handle_connect_status" /\ BitSet(s, 1) /\ ConnectStatus(p, s)) =>
                 host'.last_changed_port = p + 1
       /\ \A p \in PortIndexes, s \in StatusWords, o \in ResetOffsets :
             (call'.op = "handle_port_reset" /\ BitSet(s, ResetFlag(o)) /\ PortReset(p, s, o)) =>
                 host'.last_changed_port = p + 1
      ]_vars

(***************************************************************************)
(* C9 amended: the slot is updated on every observed connect event, and on  *)
(* an observed reset event only when a device is registered on the reset    *)
(* port: after a status word with the reset bit set for port index p is     *)
(* handled, the slot equals p+1 if a device was registered on port p+1 and  *)
(* is unchanged if none was.                                                *)
(***************************************************************************)
C9_SlotOnResetOfKnownPort ==
    [][/\ \A p \in PortIndexes, s \in StatusWords :
             (call'.op = "handle_connect_status" /\ BitSet(s, 1) /\ ConnectStatus(p, s)) =>
                 host'.last_changed_port = p + 1
       /\ \A p \in PortIndexes, s \in StatusWords, o \in ResetOffsets :
             (call'.op = "handle_port_reset" /\ BitSet(s, ResetFlag(o)) /\ PortReset(p, s, o)) =>
                 host'.last_changed_port =
                     IF get_device_by_port(Mem, p + 1) # NULL
                     THEN p + 1
                     ELSE host.last_changed_port
      ]_vars

\* a reset has evicted the device of port 1 after port 2 was the last to
\* change: a device of port 2 is registered and the slot is back to 1
C9_Witness ==
    /\ call.op = "handle_port_reset"
    /\ call.dev # NULL
    /\ ~panicked
    /\ host.last_changed_port = 1
    /\ \E e \in InChain(Mem) : dev[e].portno = 2

(***************************************************************************)
(* C10: when handle_port_reset is called with the reset bit set for a port  *)
(* on which no device is registered, it returns (with the value 1, its      *)
(* code for this case) and the registry -- the device chain and every       *)
(* device's fields -- is unchanged.                                         *)
(***************************************************************************)
C10_ResetOfUnknownPort ==
    [][\A p \in PortIndexes, s \in StatusWords, o \in ResetOffsets :
        (call'.op = "handle_port_reset" /\ BitSet(s, ResetFlag(o))
            /\ get_device_by_port(Mem, p + 1) = NULL /\ PortReset(p, s, o)) =>
                /\ ~panicked'
                /\ call'.ret = 1
                /\ host'.device = host.device
                /\ dev' = dev
      ]_vars

\* the call has returned 1 while the registry holds a device
C10_Witness ==
    /\ call.op = "handle_port_reset"
    /\ call.ret = 1
    /\ InChain(Mem) # {}

(***************************************************************************)
(* C11: when handle_port_reset is called with the bit selected by offset    *)
(* set in the status word and a device registered on port p+1, that device  *)
(* is evicted from the registry and the last-changed slot is set to p+1;    *)
(* when the selected bit is clear, neither the registry nor the slot        *)
(* changes.                                                                 *)
(***************************************************************************)
C11_ResetEvicts ==
    [][\A p \in PortIndexes, s \in StatusWords, o \in ResetOffsets :
        (call'.op = "handle_port_reset" /\ PortReset(p, s, o)) =>
            LET d == get_device_by_port(Mem, p + 1)
            IN  /\ (BitSet(s, ResetFlag(o)) /\ d # NULL) =>
                      /\ ~panicked'
                      /\ ~dev'[d].alloc
                      /\ d \notin InChain(MemNext)
                      /\ Unlinked(MemNext, d)
                      /\ NoHookTo(MemNext, d)
                      /\ host'.last_changed_port = p + 1
                /\ ~BitSet(s, ResetFlag(o)) =>
                      /\ host' = host
                      /\ dev' = dev
                      /\ bus' = bus
      ]_vars

\* a reset of port 2 has evicted the only device of the registry
C11_Witness ==
    /\ call.op = "handle_port_reset"
    /\ call.dev # NULL
    /\ ~panicked
    /\ host.last_changed_port = 2
    /\ InChain(Mem) = {}

(***************************************************************************)
(* Vocabulary of the parser's properties.                                  *)
(***************************************************************************)
\* the call of parse_descriptor on a CONFIG answer has returned
ConfigReturned == parse.state = "returned" /\ parse.desc = USB_DT_CONFIG

\* the walk x has built a tree that parse_descriptor installs as dev->config
Installs(x) ==
    /\ x.cdesc # <<>>
    /\ ~(bNumInterfaces(x.cdesc[1]) # 0 /\ x.ret <= USB_DT_CONFIG_SIZE)

(***************************************************************************)
(* C12: for every configuration tree installed by the parser and for every *)
(* alt-setting in it (alt-settings beyond the first and alt-settings with   *)
(* no parsed endpoints included), endpoint[0] is the synthesized endpoint   *)
(* and its wMaxPacketSize equals the device descriptor's bMaxPacketSize0.   *)
(* The code does not do this: see C12_EndpointZeroEverywhere's trace.       *)
(***************************************************************************)
C12_EndpointZeroEverywhere ==
    (ConfigReturned /\ Installs(parse.walk)) =>
        \A c \in DOMAIN parse.dev.config :
            \A i \in DOMAIN parse.dev.config[c].interface.altsetting :
                LET a == parse.dev.config[c].interface.altsetting[i]
                IN  /\ a.endpoint # <<>>
                    /\ a.endpoint[1] = SynthEndpoint(bMaxPacketSize0(parse.dev.descriptor))
                    /\ wMaxPacketSize(a.endpoint[1]) = bMaxPacketSize0(parse.dev.descriptor)

RECURSIVE SumSeq(_)
\* the sum of a sequence of numbers
SumSeq(q) == IF q = <<>> THEN 0 ELSE Head(q) + SumSeq(Tail(q))

\* the bytes a walk has attributed: bLength of every configuration, interface
\* and endpoint record kept in the tree, the length of every extra buffer,
\* and the length of the other bucket
EndpointBytes(e) == e.bytes[1] + e.extralen

InterfaceBytes(a) ==
    a.bytes[1] + a.extralen + SumSeq([k \in DOMAIN a.endpoint |-> EndpointBytes(a.endpoint[k])])

ConfigBytes(c) ==
    c.bytes[1] + c.extralen
    + SumSeq([i \in DOMAIN c.interface.altsetting |-> InterfaceBytes(c.interface.altsetting[i])])

AttributedBytes(x) ==
    SumSeq([c \in DOMAIN x.cdesc |-> ConfigBytes(x.cdesc[c])]) + x.odesclen

RECURSIVE Nested(_, _, _)
\* from offset pos on, every INTERFACE record of buf follows a CONFIG record
\* and every ENDPOINT record follows an INTERFACE record of the same
\* configuration; depth is 0 with nothing open, 1 with a configuration open,
\* 2 with an alt-setting open
Nested(buf, pos, depth) ==
    IF pos >= Len(buf) \/ ByteAt(buf, pos) = 0
    THEN TRUE
    ELSE CASE ByteAt(buf, pos + 1) = USB_DT_CONFIG ->
                 Nested(buf, pos + ByteAt(buf, pos), 1)
           [] ByteAt(buf, pos + 1) = USB_DT_INTERFACE ->
                 depth >= 1 /\ Nested(buf, pos + ByteAt(buf, pos), 2)
           [] ByteAt(buf, pos + 1) = USB_DT_ENDPOINT ->
                 depth >= 2 /\ Nested(buf, pos + ByteAt(buf, pos), depth)
           [] OTHER ->
                 Nested(buf, pos + ByteAt(buf, pos), depth)

(***************************************************************************)
(* C13: for every descriptor byte stream B whose records all have          *)
(* bLength > 0, the bytes attributed by the parser to configuration         *)
(* records, interface records, endpoint records, all extra buffers and the  *)
(* other bucket sum to |B|: no record's bytes are dropped or counted twice. *)
(* Stated here for the streams in which no record lacks its parent, so that *)
(* a record the parser drops for lack of a parent refutes nothing.          *)
(* The code does not do this: see C13_EveryByteAttributed's trace.          *)
(***************************************************************************)
C13_EveryByteAttributed ==
    (ConfigReturned /\ ~parse.walk.stopped /\ Nested(parse.buf, 0, 0)) =>
        AttributedBytes(parse.walk) = parse.len

RECURSIVE FirstZero(_, _)
\* the offset of the first record of buf, from the record at pos on, whose
\* bLength is 0; -1 when every record has a positive bLength
FirstZero(buf, pos) ==
    IF pos >= Len(buf)
    THEN 0 - 1
    ELSE IF ByteAt(buf, pos) = 0
    THEN pos
    ELSE FirstZero(buf, pos + ByteAt(buf, pos))

\* what a walk has built: the configurations and the other bucket
Tree(x) == [cdesc |-> x.cdesc, odesc |-> x.odesc, odesclen |-> x.odesclen]

\* the walk of the records of buf that start before offset k
WalkBefore(buf, k) == extract_config_descriptors(buf, k)

\* config is the tree built, but for the endpoint array of the first
\* alt-setting of the first configuration, where endpoint zero is added
InstalledFrom(config, built) ==
    /\ built # <<>>
    /\ Len(config) = Len(built)
    /\ IF built[1].interface.altsetting = <<>>
       THEN config = built
       ELSE /\ config[1].interface.altsetting # <<>>
            /\ config = [built EXCEPT ![1].interface.altsetting[1].endpoint =
                                          config[1].interface.altsetting[1].endpoint]

\* the walk has stopped at the record of offset k and has built what the
\* records before it yield
StoppedAt(k) ==
    /\ parse.walk.stopped
    /\ parse.walk.parsed = k
    /\ Tree(parse.walk) = Tree(WalkBefore(parse.buf, k))

(***************************************************************************)
(* C14 as stated: when the parser meets a record with bLength = 0 in a      *)
(* CONFIG response, it stops walking at that record, attributes no later    *)
(* bytes to the tree, and the partial tree built from the records before it *)
(* is installed as dev.config.                                              *)
(***************************************************************************)
C14_ZeroLengthInstallsPartial ==
    (ConfigReturned /\ FirstZero(parse.buf, 0) >= 0) =>
        /\ StoppedAt(FirstZero(parse.buf, 0))
        /\ parse.walk.cdesc # <<>> =>
              InstalledFrom(parse.dev.config, parse.walk.cdesc)

(***************************************************************************)
(* C14 amended: when the parser meets a record with bLength = 0 in a CONFIG *)
(* response, it stops walking at that record and attributes no later bytes  *)
(* to the tree; the partial tree built from the records before it is        *)
(* installed as dev.config, unless its first configuration has              *)
(* bNumInterfaces > 0 and the response is no longer than the 9-byte         *)
(* configuration header, in which case dev.config keeps its value.          *)
(***************************************************************************)
C14_ZeroLengthStops ==
    (ConfigReturned /\ FirstZero(parse.buf, 0) >= 0) =>
        /\ StoppedAt(FirstZero(parse.buf, 0))
        /\ parse.walk.cdesc # <<>> =>
              IF bNumInterfaces(parse.walk.cdesc[1]) # 0 /\ parse.len <= USB_DT_CONFIG_SIZE
              THEN parse.dev.config = parse.old.config
              ELSE InstalledFrom(parse.dev.config, parse.walk.cdesc)

\* a zero-length record was met after a configuration and an alt-setting,
\* with a record behind it, and the tree of the two records is installed
C14_Witness ==
    /\ ConfigReturned
    /\ parse.walk.stopped
    /\ parse.walk.parsed = 18
    /\ parse.len > 20
    /\ Len(parse.dev.config) = 1
    /\ Len(parse.dev.config[1].interface.altsetting) = 1
    /\ parse.dev.config # parse.old.config

(***************************************************************************)
(* C15: a CONFIG response whose configuration record has                    *)
(* bNumInterfaces > 0 but whose total length is no larger than the bare     *)
(* 9-byte configuration header is discarded entirely: the newly built       *)
(* sub-tree is freed and dev.config keeps the value it had before the       *)
(* parse.                                                                   *)
(* The code does not free the sub-tree: see C15_IncompleteDiscarded's       *)
(* trace.                                                                   *)
(***************************************************************************)
C15_IncompleteDiscarded ==
    (/\ ConfigReturned
     /\ parse.walk.cdesc # <<>>
     /\ bNumInterfaces(parse.walk.cdesc[1]) > 0
     /\ parse.len <= USB_DT_CONFIG_SIZE) =>
        /\ parse.unfreed = {}
        /\ parse.dev.config = parse.old.config

(***************************************************************************)
(* C16: parsing a DEVICE descriptor response of length len writes exactly   *)
(* min(len, 18) bytes of dev.descriptor and leaves every byte beyond that,  *)
(* and every other field of the device, unchanged; in particular an 8-byte  *)
(* response changes only the first 8 bytes.                                 *)
(***************************************************************************)
C16_DevicePrefixOnly ==
    (parse.state = "returned" /\ parse.desc = USB_DT_DEVICE) =>
        LET n == IF parse.len <= USB_DT_DEVICE_SIZE THEN parse.len ELSE USB_DT_DEVICE_SIZE
        IN  /\ Len(parse.dev.descriptor) = USB_DT_DEVICE_SIZE
            /\ \A i \in 1..USB_DT_DEVICE_SIZE :
                  parse.dev.descriptor[i] =
                      IF i <= n THEN parse.buf[i] ELSE parse.old.descriptor[i]
            /\ [parse.dev EXCEPT !.descriptor = parse.old.descriptor] = parse.old

\* an 8-byte response has been parsed for a device that carried another
\* descriptor: the first 8 bytes are new, bytes 9..18 are the old ones
C16_Witness ==
    /\ parse.state = "returned"
    /\ parse.desc = USB_DT_DEVICE
    /\ parse.len = 8
    /\ parse.old.descriptor = KeyboardDevice
    /\ SubSeq(parse.dev.descriptor, 1, 8) = SubSeq(MouseDevice, 1, 8)
    /\ SubSeq(parse.dev.descriptor, 9, 18) = SubSeq(KeyboardDevice, 9, 18)

(***************************************************************************)
(* C17: the parser never faults; it never uses a nil configuration,        *)
(* alt-setting or endpoint cursor, also when a non-standard record follows *)
(* a dropped INTERFACE or ENDPOINT record or follows a CONFIG record.       *)
(***************************************************************************)
C17_ParserNeverFaults ==
    (parse.desc = USB_DT_CONFIG /\ parse.state # "ready") => ~parse.walk.fault

(***************************************************************************)
(* C18: neither host.lock_hk nor any dev.lock_dev is held at the moment    *)
(* the subsystem calls into an external collaborator; in particular the    *)
(* class-handle remove callback and the bus lookup of free_device run with *)
(* no lock held.                                                           *)
(***************************************************************************)
C18_NoLockAcrossCalls ==
    /\ cpu.ins.ext.held = {}
    /\ cpu.rem.ext.held = {}

(***************************************************************************)
(* C19: under every interleaving of a device insertion (SET_ADDRESS on one *)
(* CPU) with the removal of a different device of the same host (port      *)
(* status on another CPU), the resulting chain holds exactly the inserted  *)
(* device and the devices not removed, with consistent head, next and prev *)
(* links.                                                                  *)
(***************************************************************************)
C19_InterleavedInsertRemove ==
    (/\ cpu.ins.pc = "done" /\ cpu.rem.pc = "done"
     /\ cpu.rem.dev # NULL
     /\ cpu.rem.old.devnum \in cpu.known
     /\ cpu.ins.devadr \notin cpu.known) =>
        /\ {dev[n].devnum : n \in InChain(Mem)} =
               (cpu.known \ {cpu.rem.old.devnum}) \cup {cpu.ins.devadr}
        /\ C2_LinksConsistent

(***************************************************************************)
(* C20: free_device completes and removes the device from the chain when   *)
(* the device is only partially populated: with config nil, with handle    *)
(* nil, or with a handle whose remove callback is nil, it performs no      *)
(* access through the nil field and still unlinks the device and evicts    *)
(* its hooks.  Stated of a removal that no insertion runs alongside.       *)
(***************************************************************************)
C20_PartialDeviceFreed ==
    (/\ cpu.rem.dev # NULL
     /\ cpu.ins.pc = "start"
     /\ \/ cpu.rem.old.config = <<>>
        \/ cpu.rem.old.handle = NULL
        \/ remove(cpu.rem.old.handle) = "NULL") =>
        /\ ~panicked /\ ~cpu.rem.fault
        /\ cpu.rem.pc \in {"connect", "done"} =>
              /\ ~dev[cpu.rem.dev].alloc
              /\ Unlinked(Mem, cpu.rem.dev)
              /\ NoHookTo(Mem, cpu.rem.dev)
              /\ {dev[n].devnum : n \in InChain(Mem)} = cpu.known \ {cpu.rem.old.devnum}
              /\ C2_LinksConsistent

\* the port-status callback has returned after freeing a device that had no
\* configuration tree and a handle without remove callback, and another
\* device is still chained
C20_Witness ==
    /\ cpu.rem.pc = "done"
    /\ cpu.ins.pc = "start"
    /\ cpu.rem.dev # NULL
    /\ cpu.rem.old.config = <<>>
    /\ cpu.rem.old.handle = 1
    /\ ~dev[cpu.rem.dev].alloc
    /\ InChain(Mem) # {}
    /\ ~panicked

\* the extra buffers of a tree: per configuration its own and those of its
\* alt-settings
Extras(cdesc) ==
    [c \in DOMAIN cdesc |->
        [extra |-> cdesc[c].extra,
         alts |-> [i \in DOMAIN cdesc[c].interface.altsetting |->
                      cdesc[c].interface.altsetting[i].extra]]]

\* acc with the n bytes at pos appended to the extra buffer of the level
\* that is open: the last configuration's or its last alt-setting's
Routed(acc, level, buf, pos, n) ==
    CASE level = USB_DT_CONFIG /\ acc # <<>> ->
            [acc EXCEPT ![Len(acc)].extra = @ \o BytesAt(buf, pos, n)]
      [] level = USB_DT_INTERFACE /\ acc # <<>> ->
            [acc EXCEPT ![Len(acc)].alts[Len(acc[Len(acc)].alts)] = @ \o BytesAt(buf, pos, n)]
      [] OTHER -> acc

RECURSIVE LevelExtras(_, _, _, _)
\* the extra buffers the records of buf from offset pos on yield when every
\* non-standard record goes to the level opened by the last standard record
\* before it; level is the type of that record, acc the buffers so far
LevelExtras(buf, pos, level, acc) ==
    IF pos >= Len(buf) \/ ByteAt(buf, pos) = 0
    THEN acc
    ELSE CASE ByteAt(buf, pos + 1) = USB_DT_CONFIG ->
                 LevelExtras(buf, pos + ByteAt(buf, pos), USB_DT_CONFIG,
                             Append(acc, [extra |-> <<>>, alts |-> <<>>]))
           [] ByteAt(buf, pos + 1) = USB_DT_INTERFACE ->
                 LevelExtras(buf, pos + ByteAt(buf, pos), USB_DT_INTERFACE,
                             [acc EXCEPT ![Len(acc)].alts = Append(@, <<>>)])
           [] ByteAt(buf, pos + 1) = USB_DT_ENDPOINT ->
                 LevelExtras(buf, pos + ByteAt(buf, pos), USB_DT_ENDPOINT, acc)
           [] OTHER ->
                 LevelExtras(buf, pos + ByteAt(buf, pos), level,
                             Routed(acc, level, buf, pos, ByteAt(buf, pos)))

(***************************************************************************)
(* C21: every non-standard record is routed by the type of the standard    *)
(* record that opened the current level: each one after an INTERFACE record *)
(* and before the next standard record is appended to that alt-setting's    *)
(* extra buffer, each one after a CONFIG record and before the next         *)
(* standard record to that configuration's extra buffer, also when several  *)
(* non-standard records follow one another.  Stated for the streams in      *)
(* which no record lacks its parent.                                        *)
(* The code does not do this: see C21_ExtrasFollowLevel's trace.            *)
(***************************************************************************)
C21_ExtrasFollowLevel ==
    (ConfigReturned /\ Nested(parse.buf, 0, 0)) =>
        Extras(parse.walk.cdesc) = LevelExtras(parse.buf, 0, 0, <<>>)

\* the walk of buf finds a record at offset p
Boundary(buf, p) ==
    p = 0 \/ (WalkBefore(buf, p).parsed = p /\ ~WalkBefore(buf, p).stopped)

\* offset p of buf is where the walk finds a record that is not of a
\* standard type, the record before it being an ENDPOINT record
OtherAfterEndpoint(buf, p) ==
    /\ ByteAt(buf, p) > 0
    /\ p + ByteAt(buf, p) <= Len(buf)
    /\ ByteAt(buf, p + 1) \notin {USB_DT_CONFIG, USB_DT_INTERFACE, USB_DT_ENDPOINT}
    /\ WalkBefore(buf, p).parsed = p
    /\ ~WalkBefore(buf, p).stopped
    /\ WalkBefore(buf, p).last_bDescriptorType = USB_DT_ENDPOINT
    /\ WalkBefore(buf, p).edescp.e # 0

\* the endpoint the cursor e names in the tree of the walk w
EndpointAt(w, e) == w.cdesc[e.c].interface.altsetting[e.i].endpoint[e.e]

(***************************************************************************)
(* C22: a non-standard record that follows an ENDPOINT record is appended  *)
(* to that endpoint's extra buffer and the endpoint's extralen grows by    *)
(* the record's bLength; it is not placed in the other bucket and not      *)
(* dropped.                                                                *)
(* The code drops the record: see C22_EndpointExtraAppended's trace.       *)
(***************************************************************************)
C22_EndpointExtraAppended ==
    (ConfigReturned /\ Nested(parse.buf, 0, 0)) =>
        \A p \in 0..(parse.len - 1) :
            OtherAfterEndpoint(parse.buf, p) =>
                LET n == ByteAt(parse.buf, p)
                    w == WalkBefore(parse.buf, p)
                    v == WalkBefore(parse.buf, p + n)
                IN  /\ EndpointAt(v, w.edescp).extra =
                           EndpointAt(w, w.edescp).extra \o BytesAt(parse.buf, p, n)
                    /\ EndpointAt(v, w.edescp).extralen = EndpointAt(w, w.edescp).extralen + n
                    /\ v.odesclen = w.odesclen

\* offset p of buf is where the walk finds a record of type t
RecordAt(buf, p, t) ==
    /\ ByteAt(buf, p) > 0
    /\ p + ByteAt(buf, p) <= Len(buf)
    /\ ByteAt(buf, p + 1) = t
    /\ Boundary(buf, p)

\* the walk w has a configuration open, and an alt-setting open under it
ConfigOpen(w) == w.cdesc # <<>>

AltOpen(w) == ConfigOpen(w) /\ w.cdesc[Len(w.cdesc)].interface.altsetting # <<>>

\* the tree of w with the endpoint e appended to the last alt-setting of the
\* last configuration
WithEndpoint(w, e) ==
    [w.cdesc EXCEPT ![Len(w.cdesc)].interface.altsetting[
                         Len(w.cdesc[Len(w.cdesc)].interface.altsetting)].endpoint =
                             Append(@, e)]

(***************************************************************************)
(* C23: an INTERFACE record seen with no open configuration and an         *)
(* ENDPOINT record seen with no open alt-setting under the current         *)
(* configuration are dropped without changing the tree; every ENDPOINT     *)
(* record that is kept is appended, in wire order, to the most recently    *)
(* opened alt-setting of the most recently opened configuration, never to  *)
(* an alt-setting of an earlier configuration.                             *)
(* The code does not do this: see C23_RecordsFollowOpenLevel's trace.      *)
(***************************************************************************)
C23_RecordsFollowOpenLevel ==
    ConfigReturned =>
        \A p \in 0..(parse.len - 1) :
            LET n == ByteAt(parse.buf, p)
                w == WalkBefore(parse.buf, p)
                v == WalkBefore(parse.buf, p + n)
            IN  /\ (RecordAt(parse.buf, p, USB_DT_INTERFACE) /\ ~ConfigOpen(w)) =>
                       Tree(v) = Tree(w)
                /\ (RecordAt(parse.buf, p, USB_DT_ENDPOINT) /\ ~AltOpen(w)) =>
                       Tree(v) = Tree(w)
                /\ (RecordAt(parse.buf, p, USB_DT_ENDPOINT) /\ AltOpen(w)) =>
                       v.cdesc = WithEndpoint(w, NewEndpoint(parse.buf, p, n))

\* the device new_usb_device has created is allocated and is not the one a
\* port-status callback is freeing
InsertedIntact ==
    /\ IsDevice(Mem, cpu.ins.dev)
    /\ ~(cpu.rem.dev = cpu.ins.dev /\ cpu.rem.pc \notin {"start", "connect", "done"})

\* a request and, when its answer was handed to the parser, the parse
StepsOf(name, parsed) ==
    <<name>> \o (IF parsed THEN <<"parse_descriptor">> ELSE <<>>)

\* the steps of new_usb_device from "new device" to its return, for the
\* answers env; probe tells whether a successful answer to the 8-byte
\* request is parsed
EnumerationSteps(env, probe) ==
    <<"zalloc_usb_device", "link">>
    \o StepsOf("GET_DESCRIPTOR(DEVICE,8)", probe /\ RetOf(env.r8) > 0)
    \o StepsOf("GET_DESCRIPTOR(DEVICE,18)", RetOf(env.r18) > 0)
    \o StepsOf("GET_DESCRIPTOR(CONFIG,255)", RetOf(env.rc) > 0)
    \o <<"usb_hook_register">>

\* the SET_CONFIGURATION reply hook of the device created is registered
HookRegistered ==
    \E i \in DOMAIN host.hook[USB_HOOK_REPLY] :
        host.hook[USB_HOOK_REPLY][i] =
            [devadr |-> cpu.ins.devadr, pattern |-> pat_setconf,
             callback |-> "device_state_change", dev |-> cpu.ins.dev]

\* what the claim says of the device created, apart from the order of the
\* steps: ADDRESSED from its creation to the end, the hook registered only
\* after the last request
EnumerationState ==
    /\ cpu.ins.pc \notin {"start", "collision"} =>
          dev[cpu.ins.dev].bStatus = UD_STATUS_ADDRESSED
    /\ cpu.ins.pc \in {"hook_unlock", "done"} <=> HookRegistered

(***************************************************************************)
(* C24 as stated: on an observed SET_ADDRESS the handler creates the       *)
(* device in state ADDRESSED and links it, then issues                     *)
(* GET_DESCRIPTOR(DEVICE,8), (DEVICE,18) and (CONFIG,255) with each        *)
(* successful response fed to the parser, and only after that registers    *)
(* the SET_CONFIGURATION reply hook with back-link to the device; the      *)
(* device is ADDRESSED at the end even when a descriptor request fails.    *)
(***************************************************************************)
C24_EveryAnswerParsed ==
    InsertedIntact =>
        /\ EnumerationState
        /\ cpu.ins.pc = "done" =>
              cpu.ins.trace = EnumerationSteps(Attached(cpu.ins.udev), TRUE)

(***************************************************************************)
(* C24 amended: as above, but the response to GET_DESCRIPTOR(DEVICE,8) is  *)
(* not fed to the parser: it only yields the packet size of the two        *)
(* requests that follow, whose successful responses are parsed.            *)
(***************************************************************************)
C24_EnumerationOrder ==
    InsertedIntact =>
        /\ EnumerationState
        /\ cpu.ins.pc = "done" =>
              /\ cpu.ins.trace = EnumerationSteps(Attached(cpu.ins.udev), FALSE)
              /\ cpu.ins.pktsz = IF RetOf(Attached(cpu.ins.udev).r8) >= 8
                                 THEN bMaxPacketSize0(Attached(cpu.ins.udev).r8) ELSE 0

\* new_usb_device has returned for a device whose three requests were
\* answered: both the DEVICE and the CONFIG answer were parsed
C24_Witness ==
    /\ cpu.ins.pc = "done"
    /\ InsertedIntact
    /\ RetOf(Attached(cpu.ins.udev).r8) > 0
    /\ dev[cpu.ins.dev].descriptor = MouseDevice
    /\ dev[cpu.ins.dev].config # <<>>
    /\ dev[cpu.ins.dev].bStatus = UD_STATUS_ADDRESSED
    /\ HookRegistered

(***************************************************************************)
(* C25: after endpoint-0 synthesis on the first alt-setting, its endpoint  *)
(* array holds the synthesized endpoint at index 0 followed by exactly the *)
(* N ENDPOINT records parsed for that alt-setting, in wire order, at       *)
(* indices 1..N, also when the alt-setting's declared bNumEndpoints        *)
(* differs from the number of ENDPOINT records actually parsed.            *)
(* The code does not do this: see C25_SynthesisKeepsParsed's trace.        *)
(***************************************************************************)
C25_SynthesisKeepsParsed ==
    (/\ ConfigReturned
     /\ Installs(parse.walk)
     /\ parse.walk.cdesc[1].interface.altsetting # <<>>
     /\ parse.walk.cdesc[1].interface.altsetting[1].endpoint # <<>>) =>
        parse.dev.config[1].interface.altsetting[1].endpoint =
            <<SynthEndpoint(bMaxPacketSize0(parse.dev.descriptor))>>
            \o parse.walk.cdesc[1].interface.altsetting[1].endpoint

\* buf with the bLength of the record at offset p cut down to the bytes that
\* are left before the end of buf
Clipped(buf, p) == [buf EXCEPT ![p + 1] = Len(buf) - p]

\* offset p of buf is where the walk finds a record whose bLength reaches
\* past the end of buf
Truncated(buf, p) ==
    /\ ByteAt(buf, p) > 0
    /\ p + ByteAt(buf, p) > Len(buf)
    /\ Boundary(buf, p)

(***************************************************************************)
(* C26: the parser never reads or attributes bytes past the end of the     *)
(* input buffer: for every record at cursor position pos in a buffer of    *)
(* length len the bytes copied for it lie within [pos, len), so a final    *)
(* record whose bLength exceeds the remaining bytes is dropped or clipped  *)
(* rather than copied in full.                                             *)
(* The code copies it in full: see C26_NoReadPastEnd's trace.              *)
(***************************************************************************)
C26_NoReadPastEnd ==
    ConfigReturned =>
        /\ AttributedBytes(parse.walk) <= parse.len
        /\ \A p \in 0..(parse.len - 1) :
              Truncated(parse.buf, p) =>
                  \/ Tree(parse.walk) = Tree(WalkBefore(parse.buf, p))
                  \/ Tree(parse.walk) =
                         Tree(extract_config_descriptors(Clipped(parse.buf, p), parse.len))

\* free_device(host, dev) has returned on CPU c
Completed(c) == cpu[c].dev # NULL /\ cpu[c].pc \in {"connect", "done"}

\* CPU c is past the test of "remove it from device list" and has not yet
\* released dev->lock_dev
Unlinking(c) == cpu[c].pc \in {"unlink_head", "bus", "unlink_next", "unlock"}

(***************************************************************************)
(* C27: under every interleaving of port-status callbacks (disconnect,     *)
(* reset) and SET_ADDRESS collision handling that look up the same device, *)
(* free_device runs to completion at most once for that device: no device  *)
(* is unlinked or released twice, and no CPU unlinks a device that another *)
(* CPU has already released.                                               *)
(***************************************************************************)
C27_ReleasedOnce ==
    /\ ~(Completed("rem") /\ Completed("rst") /\ cpu.rem.dev = cpu.rst.dev)
    /\ \A c \in Removers : Unlinking(c) => dev[cpu[c].dev].alloc

====
